---- MODULE Spec2Model ----
(***************************************************************************)
(* Verification model of the dependency-specification core of pkgcraft:   *)
(* version and atom parsing (crates/pkgcraft/src/dep/parse.rs), the Atom   *)
(* value with its key, ordering, hashing, rendering and intersection      *)
(* (crates/pkgcraft/src/atom.rs).                                         *)
(*                                                                         *)
(* Strings are sequences of one-character strings; the grammar is the     *)
(* PEG of parse.rs translated rule by rule, each rule being an operator   *)
(* from (input, position) to the position after the match, 0 meaning the  *)
(* rule failed (positions are 1-based, so a match ending at the end of    *)
(* the input returns Len(s) + 1).  A value that a rule uses more than    *)
(* once is bound as the parameter of a local operator.                    *)
(***************************************************************************)
EXTENDS Integers, Sequences, FiniteSets, TLC

(***************************************************************************)
(* Characters in ASCII order, used for every byte-wise string comparison. *)
(***************************************************************************)
Alphabet ==
    << " ", "!", "(", ")", "*", "+", ",", "-", ".", "/",
       "0", "1", "2", "3", "4", "5", "6", "7", "8", "9",
       ":", "<", "=", ">", "?", "@", "[", "]", "^", "_",
       "a", "b", "c", "d", "e", "f", "g", "h", "i", "j", "k", "l", "m",
       "n", "o", "p", "q", "r", "s", "t", "u", "v", "w", "x", "y", "z", "|", "~" >>

Chars == { Alphabet[i] : i \in 1..Len(Alphabet) }

CharCode == [ c \in Chars |-> CHOOSE i \in 1..Len(Alphabet) : Alphabet[i] = c ]

Digits == { "0", "1", "2", "3", "4", "5", "6", "7", "8", "9" }

Lower ==
    { "a", "b", "c", "d", "e", "f", "g", "h", "i", "j", "k", "l", "m",
      "n", "o", "p", "q", "r", "s", "t", "u", "v", "w", "x", "y", "z" }

DigitVal == [ c \in Digits |-> CharCode[c] - CharCode["0"] ]

\* Option values: None is the empty tuple, Some(x) the one-element tuple.
None == << >>

Some(x) == << x >>

IsSome(o) == Len(o) = 1

\* Ordering results of std::cmp::Ordering.
Less == "Less"

Equal == "Equal"

Greater == "Greater"

Reverse(o) == IF o = Less THEN Greater ELSE IF o = Greater THEN Less ELSE Equal

CmpInt(a, b) == IF a < b THEN Less ELSE IF a > b THEN Greater ELSE Equal

\* Ordering::then (the cmp_not_equal! early return): the first result
\* unless it is Equal, else the second.
Then(o1, o2) == IF o1 # Equal THEN o1 ELSE o2

\* Byte-wise lexicographic comparison of two strings (impl Ord for str).
RECURSIVE CmpStrFrom(_, _, _)
CmpStrFrom(a, b, i) ==
    IF i > Len(a) /\ i > Len(b) THEN Equal
    ELSE IF i > Len(a) THEN Less
    ELSE IF i > Len(b) THEN Greater
    ELSE IF a[i] # b[i] THEN CmpInt(CharCode[a[i]], CharCode[b[i]])
    ELSE CmpStrFrom(a, b, i + 1)

CmpStr(a, b) == CmpStrFrom(a, b, 1)

\* Option<T>: None sorts before Some, two Some compare by their content,
\* `inner` being the comparison of a[1] and b[1].
CmpOpt(a, b, inner) ==
    IF ~IsSome(a) /\ ~IsSome(b) THEN Equal
    ELSE IF ~IsSome(a) THEN Less
    ELSE IF ~IsSome(b) THEN Greater
    ELSE inner

\* End of the longest run of characters of `class` starting at position i.
RECURSIVE RunEnd(_, _, _)
RunEnd(s, i, class) ==
    IF i <= Len(s) /\ s[i] \in class THEN RunEnd(s, i + 1, class) ELSE i

\* TRUE iff the literal `lit` occurs in s at position i.
At(s, i, lit) ==
    /\ i + Len(lit) - 1 <= Len(s)
    /\ \A k \in 1..Len(lit) : s[i + k - 1] = lit[k]

Slice(s, from, to) == SubSeq(s, from, to - 1)

\* Decimal value of a digit string (str::parse::<u64>).
RECURSIVE ParseNum(_)
ParseNum(d) ==
    IF Len(d) = 0 THEN 0
    ELSE 10 * ParseNum(SubSeq(d, 1, Len(d) - 1)) + DigitVal[d[Len(d)]]

(***************************************************************************)
(* Version grammar: parse.rs, rules version_suffix, version, revision.    *)
(***************************************************************************)
Fail == [ ok |-> FALSE ]

\* The suffix keywords with the kinds of "pre" and "rc" exchanged.
SuffixWordsSwapped ==
    << << <<"a", "l", "p", "h", "a">>, "Alpha" >>,
       << <<"b", "e", "t", "a">>, "Beta" >>,
       << <<"p", "r", "e">>, "Rc" >>,
       << <<"r", "c">>, "Pre" >>,
       << <<"p">>, "P" >> >>

\* The suffix keywords in the order of the rule's alternatives, each with
\* the suffix kind it yields.
SuffixWords ==
    << << <<"a", "l", "p", "h", "a">>, "Alpha" >>,
       << <<"b", "e", "t", "a">>, "Beta" >>,
       << <<"p", "r", "e">>, "Pre" >>,
       << <<"r", "c">>, "Rc" >>,
       << <<"p">>, "P" >> >>

\* Ordered choice "alpha" / "beta" / "pre" / "rc" / "p" at position i: the
\* index of the first alternative that matches, 0 if none does.
SuffixChoice(s, i) ==
    LET First(hits) == IF hits = {} THEN 0 ELSE CHOOSE k \in hits : \A j \in hits : k <= j
    IN  First({ k \in 1..Len(SuffixWords) : At(s, i, SuffixWords[k][1]) })

\* rule version_suffix: "_" keyword digits?
version_suffix(s, i) ==
    LET Made(w, from, to) ==
            [ ok |-> TRUE, end |-> to,
              suffix |-> [ kind |-> w[2],
                           num  |-> IF to > from
                                      THEN Some(ParseNum(Slice(s, from, to)))
                                      ELSE None ] ]
        Digs(w, from) == Made(w, from, RunEnd(s, from, Digits))
        Word(c) == IF c = 0 THEN Fail
                   ELSE Digs(SuffixWords[c], i + 1 + Len(SuffixWords[c][1]))
    IN  IF At(s, i, <<"_">>) THEN Word(SuffixChoice(s, i + 1)) ELSE Fail

\* version_suffix()* from position i: the suffixes and the end position.
RECURSIVE SuffixStar(_, _, _)
SuffixStar(s, i, acc) ==
    LET More(r) == IF r.ok THEN SuffixStar(s, r.end, Append(acc, r.suffix))
                   ELSE [ end |-> i, suffixes |-> acc ]
    IN  More(version_suffix(s, i))

\* $(['0'..='9']+) ++ "." from position i, the first number being already
\* matched up to `i`: further ".digits" groups.
RECURSIVE NumbersMore(_, _, _)
NumbersMore(s, i, acc) ==
    LET More(e) == IF At(s, i, <<".">>) /\ e > i + 1
                     THEN NumbersMore(s, e, Append(acc, Slice(s, i + 1, e)))
                     ELSE [ end |-> i, numbers |-> acc ]
    IN  More(RunEnd(s, i + 1, Digits))

\* rule revision: "-r" digits+
revision(s, i) ==
    LET Digs(e) == IF At(s, i, <<"-", "r">>) /\ e > i + 2
                     THEN [ ok |-> TRUE, end |-> e, rev |-> Slice(s, i + 2, e) ]
                     ELSE Fail
    IN  Digs(RunEnd(s, i + 2, Digits))

\* rule version: numbers ++ "." letter? version_suffix()* revision()?
version(s, i) ==
    LET Made(nums, hasL, sfx, rev) ==
            [ ok       |-> TRUE,
              start    |-> i,
              end      |-> IF rev.ok THEN rev.end ELSE sfx.end,
              base_end |-> sfx.end - i,
              op       |-> None,
              numbers  |-> nums.numbers,
              letter   |-> IF hasL THEN Some(s[nums.end]) ELSE None,
              suffixes |-> sfx.suffixes,
              revision |-> IF rev.ok THEN Some(rev.rev) ELSE None ]
        Rev(nums, hasL, sfx) == Made(nums, hasL, sfx, revision(s, sfx.end))
        Sfx(nums, hasL) ==
            Rev(nums, hasL, SuffixStar(s, IF hasL THEN nums.end + 1 ELSE nums.end, << >>))
        Letter(nums) == Sfx(nums, nums.end <= Len(s) /\ s[nums.end] \in Lower)
        Nums(n1) == IF n1 = i THEN Fail
                    ELSE Letter(NumbersMore(s, n1, << Slice(s, i, n1) >>))
    IN  Nums(RunEnd(s, i, Digits))

(***************************************************************************)
(* Version value.  dep/version.rs is not part of the available sources;   *)
(* the owned Version, its operator handling and its comparison follow     *)
(* section 4.1 of the specification.                                      *)
(***************************************************************************)

OperatorOf(op, glob) ==
    IF op = <<"<">> THEN "Less"
    ELSE IF op = <<"<", "=">> THEN "LessOrEqual"
    ELSE IF op = <<"=">> THEN (IF glob THEN "EqualGlob" ELSE "Equal")
    ELSE IF op = <<"~">> THEN "Approximate"
    ELSE IF op = <<">", "=">> THEN "GreaterOrEqual"
    ELSE "Greater"

\* ParsedVersion::with_op: the operator of a version qualifying an atom.  A
\* glob is only legal after "=", "~" forbids a revision.
ParsedVersionWithOp(v, op, glob) ==
    IF glob /\ op # <<"=">> THEN Fail
    ELSE IF op = <<"~">> /\ IsSome(v.revision) THEN Fail
    ELSE [ v EXCEPT !.op = Some(OperatorOf(op, glob)) ]

\* ParsedVersion::into_owned: numeric components keep their text next to
\* their value, the revision keeps its text (absent or explicit "0").
ParsedVersionIntoOwned(v, s) ==
    [ ok       |-> TRUE,
      full     |-> Slice(s, v.start, v.end),
      op       |-> v.op,
      numbers  |-> [ k \in 1..Len(v.numbers) |->
                       [ s |-> v.numbers[k], n |-> ParseNum(v.numbers[k]) ] ],
      letter   |-> v.letter,
      suffixes |-> v.suffixes,
      revision |-> [ s |-> v.revision,
                     n |-> IF IsSome(v.revision) THEN ParseNum(v.revision[1]) ELSE 0 ] ]

SuffixRank ==
    [ k \in {"Alpha", "Beta", "Pre", "Rc", "NoSuffix", "P"} |->
        CASE k = "Alpha" -> 0 [] k = "Beta" -> 1 [] k = "Pre" -> 2
          [] k = "Rc" -> 3 [] k = "NoSuffix" -> 4 [] k = "P" -> 5 ]

\* Kind and numeric sub-value of the suffix at position k, a position past
\* the end of the list being the bare "no suffix" state.
SuffixAt(v, k) ==
    IF k <= Len(v.suffixes)
      THEN [ rank |-> SuffixRank[v.suffixes[k].kind],
             num  |-> IF IsSome(v.suffixes[k].num) THEN v.suffixes[k].num[1] ELSE 0 ]
      ELSE [ rank |-> SuffixRank["NoSuffix"], num |-> 0 ]

LeadingZero(str) == str[1] = "0"

\* A component comparison that looks for a leading zero on the left side
\* only.
CmpComponentOneSided(k, x, y) ==
    IF k > 1 /\ LeadingZero(x.s) THEN CmpStr(x.s, y.s) ELSE CmpInt(x.n, y.n)

\* One numeric component: the first by value, later ones by value unless
\* one side has a leading zero, then as strings.
CmpComponent(k, x, y) ==
    IF k > 1 /\ (LeadingZero(x.s) \/ LeadingZero(y.s))
      THEN CmpStr(x.s, y.s)
      ELSE CmpInt(x.n, y.n)

RECURSIVE CmpNumbers(_, _, _)
CmpNumbers(a, b, k) ==
    IF k > Len(a) /\ k > Len(b) THEN Equal
    ELSE IF k > Len(a) THEN Less
    ELSE IF k > Len(b) THEN Greater
    ELSE Then(CmpComponent(k, a[k], b[k]), CmpNumbers(a, b, k + 1))

CmpSuffix(x, y) == Then(CmpInt(x.rank, y.rank), CmpInt(x.num, y.num))

RECURSIVE CmpSuffixes(_, _, _)
CmpSuffixes(a, b, k) ==
    IF k > Len(a.suffixes) /\ k > Len(b.suffixes) THEN Equal
    ELSE Then(CmpSuffix(SuffixAt(a, k), SuffixAt(b, k)), CmpSuffixes(a, b, k + 1))

CmpChar(x, y) == CmpInt(CharCode[x], CharCode[y])

\* impl Ord for Version: numbers, letter, suffixes, revision, the first
\* non-equal step deciding.
VersionCmp(a, b) ==
    Then(CmpNumbers(a.numbers, b.numbers, 1),
         Then(CmpOpt(a.letter, b.letter, CmpChar(a.letter[1], b.letter[1])),
              Then(CmpSuffixes(a, b, 1), CmpInt(a.revision.n, b.revision.n))))

\* parse::version: a standalone version must span the whole input.
ParseVersion(s) ==
    LET Whole(v) == IF v.ok /\ v.end = Len(s) + 1 THEN ParsedVersionIntoOwned(v, s) ELSE Fail
    IN  Whole(version(s, 1))

(***************************************************************************)
(* Atom grammar: parse.rs, rules category .. dep.  An EAPI is the set of  *)
(* its features (Eapi::has is membership).  The inputs of the model use   *)
(* lower-case letters only, so the character classes leave out 'A'..'Z'.  *)
(***************************************************************************)
Alnum == Lower \cup Digits

NameStart == Alnum \cup {"_"}

NameRest == Alnum \cup {"+", "_", ".", "-"}

\* rule category
category(s, i) ==
    IF i <= Len(s) /\ s[i] \in NameStart THEN RunEnd(s, i + 1, NameRest) ELSE 0

\* The negative lookahead of rule package, taken after a "-" so that i is
\* the position following it: version() ("-" version())? ![_]
PackageVersionAhead(s, i) ==
    LET Last(v1, v2) == (IF v2.ok THEN v2.end ELSE v1.end) = Len(s) + 1
        Second(v1) ==
            /\ v1.ok
            /\ Last(v1, IF At(s, v1.end, <<"-">>) THEN version(s, v1.end + 1) ELSE Fail)
    IN  Second(version(s, i))

\* A package rule without the lookahead: every hyphen belongs to the name.
RECURSIVE PackageRestGreedy(_, _)
PackageRestGreedy(s, i) ==
    IF i > Len(s) THEN i
    ELSE IF s[i] \in Alnum \cup {"+", "_", "-"} THEN PackageRestGreedy(s, i + 1)
    ELSE i

RECURSIVE PackageRest(_, _)
PackageRest(s, i) ==
    IF i > Len(s) THEN i
    ELSE IF s[i] \in Alnum \cup {"+", "_"} \/ (s[i] = "-" /\ ~PackageVersionAhead(s, i + 1))
      THEN PackageRest(s, i + 1)
    ELSE i

\* rule package
package(s, i) ==
    IF i <= Len(s) /\ s[i] \in NameStart THEN PackageRest(s, i + 1) ELSE 0

\* rule slot_name
slot_name(s, i) ==
    IF i <= Len(s) /\ s[i] \in NameStart THEN RunEnd(s, i + 1, NameRest) ELSE 0

\* rule subslot: "/" slot_name, gated by Subslots
subslot(s, i, eapi) ==
    LET Name(e) == IF At(s, i, <<"/">>) /\ e # 0 /\ "Subslots" \in eapi
                     THEN [ ok |-> TRUE, end |-> e, val |-> Slice(s, i + 1, e) ]
                     ELSE Fail
    IN  Name(slot_name(s, i + 1))

\* A slot_str that keeps the subslot and forgets the slot it follows.
slot_str_subslot_only(s, i, eapi) ==
    LET Made(e1, sub, e2, op) ==
            IF op /\ "SlotOps" \notin eapi THEN Fail
            ELSE [ ok |-> TRUE, end |-> IF op THEN e2 + 1 ELSE e2,
                   slot |-> IF sub.ok THEN None ELSE Some(Slice(s, i, e1)),
                   subslot |-> IF sub.ok THEN Some(sub.val) ELSE None,
                   slot_op |-> IF op THEN Some("Equal") ELSE None ]
        Op(e1, sub, e2) == Made(e1, sub, e2, At(s, e2, <<"=">>))
        Sub(e1, sub) == Op(e1, sub, IF sub.ok THEN sub.end ELSE e1)
        Name(e1) == IF e1 = 0 THEN Fail ELSE Sub(e1, subslot(s, e1, eapi))
    IN  IF (At(s, i, <<"*">>) \/ At(s, i, <<"=">>)) /\ "SlotOps" \in eapi
          THEN [ ok |-> TRUE, end |-> i + 1, slot |-> None, subslot |-> None,
                 slot_op |-> Some(IF s[i] = "=" THEN "Equal" ELSE "Star") ]
          ELSE Name(slot_name(s, i))

\* rule slot_str (with rule slot inlined): a lone slot operator, or a slot
\* name with optional subslot and optional "=".
slot_str(s, i, eapi) ==
    LET Made(e1, sub, e2, op) ==
            IF op /\ "SlotOps" \notin eapi THEN Fail
            ELSE [ ok |-> TRUE, end |-> IF op THEN e2 + 1 ELSE e2,
                   slot |-> Some(Slice(s, i, e1)),
                   subslot |-> IF sub.ok THEN Some(sub.val) ELSE None,
                   slot_op |-> IF op THEN Some("Equal") ELSE None ]
        Op(e1, sub, e2) == Made(e1, sub, e2, At(s, e2, <<"=">>))
        Sub(e1, sub) == Op(e1, sub, IF sub.ok THEN sub.end ELSE e1)
        Name(e1) == IF e1 = 0 THEN Fail ELSE Sub(e1, subslot(s, e1, eapi))
    IN  IF (At(s, i, <<"*">>) \/ At(s, i, <<"=">>)) /\ "SlotOps" \in eapi
          THEN [ ok |-> TRUE, end |-> i + 1, slot |-> None, subslot |-> None,
                 slot_op |-> Some(IF s[i] = "=" THEN "Equal" ELSE "Star") ]
          ELSE Name(slot_name(s, i))

\* rule slot_dep: ":" slot_str, gated by SlotDeps
slot_dep(s, i, eapi) ==
    LET Str(r) == IF r.ok THEN r ELSE Fail
    IN  IF At(s, i, <<":">>) /\ "SlotDeps" \in eapi THEN Str(slot_str(s, i + 1, eapi))
        ELSE Fail

\* rule blocker: "!" "!"?, gated by Blockers
blocker(s, i, eapi) ==
    IF At(s, i, <<"!">>) /\ "Blockers" \in eapi
      THEN IF At(s, i + 1, <<"!">>)
             THEN [ ok |-> TRUE, end |-> i + 2, val |-> "Strong" ]
             ELSE [ ok |-> TRUE, end |-> i + 1, val |-> "Weak" ]
      ELSE Fail

\* rule use_flag
use_flag(s, i) ==
    IF i <= Len(s) /\ s[i] \in Alnum
      THEN RunEnd(s, i + 1, Alnum \cup {"+", "_", "@", "-"})
      ELSE 0

\* rule use_dep_default()? after position i: the position after an
\* accepted "(+)" / "(-)", else i.
UseDepDefaultOpt(s, i, eapi) ==
    IF (At(s, i, <<"(", "+", ")">>) \/ At(s, i, <<"(", "-", ")">>))
          /\ "UseDepDefaults" \in eapi
      THEN i + 3 ELSE i

\* rule use_dep: three ordered alternatives; the end position or 0.
\*   flag default? ("=" / "?")?  |  "-" flag default?  |  "!" flag default? ("=" / "?")
use_dep(s, i, eapi) ==
    LET Mark(d, needed) ==
            IF d <= Len(s) /\ s[d] \in {"=", "?"} THEN d + 1
            ELSE IF needed THEN 0 ELSE d
        Signed(f) ==
            IF f = 0 THEN 0
            ELSE IF s[i] = "-" THEN UseDepDefaultOpt(s, f, eapi)
            ELSE Mark(UseDepDefaultOpt(s, f, eapi), TRUE)
        Plain(f) ==
            IF f # 0 THEN Mark(UseDepDefaultOpt(s, f, eapi), FALSE)
            ELSE IF At(s, i, <<"-">>) \/ At(s, i, <<"!">>) THEN Signed(use_flag(s, i + 1))
            ELSE 0
    IN  Plain(use_flag(s, i))

\* use_dep ++ "," continued after a first element ending at i.
RECURSIVE UseDepMore(_, _, _, _)
UseDepMore(s, i, acc, eapi) ==
    LET More(e) == IF At(s, i, <<",">>) /\ e # 0
                     THEN UseDepMore(s, e, Append(acc, Slice(s, i + 1, e)), eapi)
                     ELSE [ end |-> i, vals |-> acc ]
    IN  More(use_dep(s, i + 1, eapi))

\* rule use_deps: "[" use_dep ++ "," "]", gated by UseDeps
use_deps(s, i, eapi) ==
    LET Close(l) == IF At(s, l.end, <<"]">>) /\ "UseDeps" \in eapi
                      THEN [ ok |-> TRUE, end |-> l.end + 1, vals |-> l.vals ]
                      ELSE Fail
        First(e) == IF At(s, i, <<"[">>) /\ e # 0
                      THEN Close(UseDepMore(s, e, << Slice(s, i + 1, e) >>, eapi))
                      ELSE Fail
    IN  First(use_dep(s, i + 1, eapi))

RECURSIVE RepoRest(_, _)
RepoRest(s, i) ==
    IF i > Len(s) THEN i
    ELSE IF s[i] \in NameStart \/ (s[i] = "-" /\ ~version(s, i + 1).ok)
      THEN RepoRest(s, i + 1)
    ELSE i

\* rule repo
repo(s, i) ==
    IF i <= Len(s) /\ s[i] \in NameStart THEN RepoRest(s, i + 1) ELSE 0

\* repo_dep without the test of the feature.
repo_dep_ungated(s, i, eapi) ==
    LET Name(e) == IF At(s, i, <<":", ":">>) /\ e # 0
                     THEN [ ok |-> TRUE, end |-> e, val |-> Slice(s, i + 2, e) ]
                     ELSE Fail
    IN  Name(repo(s, i + 2))

\* rule repo_dep: "::" repo, gated by RepoIds
repo_dep(s, i, eapi) ==
    LET Name(e) == IF At(s, i, <<":", ":">>) /\ e # 0 /\ "RepoIds" \in eapi
                     THEN [ ok |-> TRUE, end |-> e, val |-> Slice(s, i + 2, e) ]
                     ELSE Fail
    IN  Name(repo(s, i + 2))

\* rule cpv: category "/" package "-" version, over the whole input
cpv(s) ==
    LET Made(c, p, v) ==
            IF v.ok /\ v.end = Len(s) + 1
              THEN [ ok |-> TRUE, category |-> Slice(s, 1, c),
                     package |-> Slice(s, c + 1, p), version |-> v ]
              ELSE Fail
        Ver(c, p) == Made(c, p, IF p # 0 /\ At(s, p, <<"-">>) THEN version(s, p + 1) ELSE Fail)
        Pkg(c) == Ver(c, IF c # 0 /\ At(s, c, <<"/">>) THEN package(s, c + 1) ELSE 0)
    IN  Pkg(category(s, 1))

\* cpv_with_op keeping only the first character of the operator.
cpv_with_op_first_char(s) ==
    LET Made(o, e, g) ==
            IF o # 0 /\ e > o + 1 /\ (IF g THEN e + 1 ELSE e) = Len(s) + 1
              THEN [ ok |-> TRUE, op |-> Slice(s, 1, 2),
                     cpv |-> Slice(s, o + 1, e), glob |-> g ]
              ELSE Fail
        Glob(o, e) == Made(o, e, At(s, e, <<"*">>))
        Text(o) == Glob(o, RunEnd(s, o + 1, Chars \ {"*"}))
    IN  Text(IF At(s, 1, <<"<", "=">>) \/ At(s, 1, <<">", "=">>) THEN 2
             ELSE IF Len(s) >= 1 /\ s[1] \in {"<", "=", "~", ">"} THEN 1 ELSE 0)

\* rule cpv_with_op: operator, $([^'*']+), optional "*", whole input
cpv_with_op(s) ==
    LET Made(o, e, g) ==
            IF o # 0 /\ e > o + 1 /\ (IF g THEN e + 1 ELSE e) = Len(s) + 1
              THEN [ ok |-> TRUE, op |-> Slice(s, 1, o + 1),
                     cpv |-> Slice(s, o + 1, e), glob |-> g ]
              ELSE Fail
        Glob(o, e) == Made(o, e, At(s, e, <<"*">>))
        Text(o) == Glob(o, RunEnd(s, o + 1, Chars \ {"*"}))
    IN  Text(IF At(s, 1, <<"<", "=">>) \/ At(s, 1, <<">", "=">>) THEN 2
             ELSE IF Len(s) >= 1 /\ s[1] \in {"<", "=", "~", ">"} THEN 1 ELSE 0)

\* rule cp: category "/" package, over the whole input
cp(s) ==
    LET Made(c, p) ==
            IF p = Len(s) + 1
              THEN [ ok |-> TRUE, category |-> Slice(s, 1, c), package |-> Slice(s, c + 1, p) ]
              ELSE Fail
        Pkg(c) == Made(c, IF c # 0 /\ At(s, c, <<"/">>) THEN package(s, c + 1) ELSE 0)
    IN  Pkg(category(s, 1))

\* rule dep: blocker? $([^':' | '[']+) slot_dep? use_deps? repo_dep?
dep(s, eapi) ==
    LET Made(b, d0, d1, sl, u, r, e) ==
            IF d1 > d0 /\ e = Len(s) + 1
              THEN [ ok |-> TRUE, dep |-> Slice(s, d0, d1),
                     blocker  |-> IF b.ok THEN Some(b.val) ELSE None,
                     slot     |-> IF sl.ok THEN sl.slot ELSE None,
                     subslot  |-> IF sl.ok THEN sl.subslot ELSE None,
                     slot_op  |-> IF sl.ok THEN sl.slot_op ELSE None,
                     use_deps |-> IF u.ok THEN Some(u.vals) ELSE None,
                     repo     |-> IF r.ok THEN Some(r.val) ELSE None ]
              ELSE Fail
        End(b, d0, d1, sl, u, r0, r) == Made(b, d0, d1, sl, u, r, IF r.ok THEN r.end ELSE r0)
        Repo(b, d0, d1, sl, u, r0) == End(b, d0, d1, sl, u, r0, repo_dep(s, r0, eapi))
        Use(b, d0, d1, sl, u0, u) == Repo(b, d0, d1, sl, u, IF u.ok THEN u.end ELSE u0)
        Slot(b, d0, d1, sl, u0) == Use(b, d0, d1, sl, u0, use_deps(s, u0, eapi))
        Text(b, d0, d1, sl) == Slot(b, d0, d1, sl, IF sl.ok THEN sl.end ELSE d1)
        Start(b, d0, d1) == Text(b, d0, d1, slot_dep(s, d1, eapi))
        Blocked(b, d0) == Start(b, d0, RunEnd(s, d0, Chars \ {":", "["}))
        Begin(b) == Blocked(b, IF b.ok THEN b.end ELSE 1)
    IN  Begin(blocker(s, 1, eapi))

\* parse::dep_str: the operator + cpv form when cpv_with_op matches the
\* dep part, else the bare category/package form.
dep_str(s, eapi) ==
    LET Versioned(d, w, c, v) ==
            IF ~c.ok \/ ~v.ok THEN Fail
            ELSE [ d EXCEPT !.dep = w.cpv ] @@
                 [ category |-> c.category, package |-> c.package,
                   version |-> Some(v), version_str |-> Some(w.cpv) ]
        WithOp(d, w, c) ==
            Versioned(d, w, c, IF c.ok THEN ParsedVersionWithOp(c.version, w.op, w.glob)
                               ELSE Fail)
        Bare(d, c) ==
            IF ~c.ok THEN Fail
            ELSE d @@ [ category |-> c.category, package |-> c.package,
                        version |-> None, version_str |-> None ]
        Form(d, w) == IF w.ok THEN WithOp(d, w, cpv(w.cpv)) ELSE Bare(d, cp(d.dep))
        Parsed(d) == IF ~d.ok THEN Fail ELSE Form(d, cpv_with_op(d.dep))
    IN  Parsed(dep(s, eapi))

(***************************************************************************)
(* The error of a failed atom parse.  A peg parser reports the furthest   *)
(* position at which an expected token was missing together with every    *)
(* token expected there; an Err(..) returned by a rule's code block       *)
(* counts as a token expected at the end of what the rule had matched,    *)
(* and nothing is recorded inside quiet!{}.  A mark is a pair of a        *)
(* position and an expected token.                                        *)
(***************************************************************************)

\* The Err(..) strings of the gated rules.
GateMessage ==
    [ f \in { "Blockers", "SlotDeps", "SlotOps", "Subslots", "UseDeps",
              "UseDepDefaults", "RepoIds" } |->
        CASE f = "Blockers"       -> "blockers are supported in >= EAPI 2"
          [] f = "SlotDeps"       -> "slot deps are supported in >= EAPI 1"
          [] f = "SlotOps"        -> "slot operators are supported in >= EAPI 5"
          [] f = "Subslots"       -> "subslots are supported in >= EAPI 5"
          [] f = "UseDeps"        -> "use deps are supported in >= EAPI 2"
          [] f = "UseDepDefaults" -> "use dep defaults are supported in >= EAPI 4"
          [] f = "RepoIds"        -> "repo deps aren't supported in EAPIs" ]

\* The mark of a gated rule that matched up to position e without its
\* feature.
GateMark(f, e, eapi) == IF f \in eapi THEN {} ELSE { << e, GateMessage[f] >> }

\* rule blocker
blocker_marks(s, i, eapi) ==
    IF ~At(s, i, <<"!">>) THEN { << i, "!" >> }
    ELSE IF At(s, i + 1, <<"!">>) THEN GateMark("Blockers", i + 2, eapi)
    ELSE { << i + 1, "!" >> } \cup GateMark("Blockers", i + 1, eapi)

\* rule subslot
subslot_marks(s, i, eapi) ==
    LET Name(e) == IF e = 0 THEN { << i + 1, "slot name" >> }
                   ELSE GateMark("Subslots", e, eapi)
    IN  IF At(s, i, <<"/">>) THEN Name(slot_name(s, i + 1)) ELSE { << i, "/" >> }

\* rule slot_str, second alternative: slot:slot(eapi) op:$("=")? and the
\* test of SlotOps
slot_op_marks(s, i, eapi) ==
    LET Op(q) == IF At(s, q, <<"=">>) THEN GateMark("SlotOps", q + 1, eapi)
                 ELSE { << q, "=" >> }
        Sub(e1, sub) == subslot_marks(s, e1, eapi) \cup Op(IF sub.ok THEN sub.end ELSE e1)
        Name(e1) == IF e1 = 0 THEN { << i, "slot name" >> } ELSE Sub(e1, subslot(s, e1, eapi))
    IN  Name(slot_name(s, i))

\* rule slot_str
slot_str_marks(s, i, eapi) ==
    IF At(s, i, <<"*">>) THEN
        IF "SlotOps" \in eapi THEN {}
        ELSE GateMark("SlotOps", i + 1, eapi) \cup slot_op_marks(s, i, eapi)
    ELSE IF At(s, i, <<"=">>) THEN
        IF "SlotOps" \in eapi THEN { << i, "*" >> }
        ELSE { << i, "*" >> } \cup GateMark("SlotOps", i + 1, eapi) \cup slot_op_marks(s, i, eapi)
    ELSE { << i, "*" >>, << i, "=" >> } \cup slot_op_marks(s, i, eapi)

\* rule slot_dep
slot_dep_marks(s, i, eapi) ==
    LET Gate(r) == IF r.ok THEN GateMark("SlotDeps", r.end, eapi) ELSE {}
    IN  IF At(s, i, <<":">>)
          THEN slot_str_marks(s, i + 1, eapi) \cup Gate(slot_str(s, i + 1, eapi))
          ELSE { << i, ":" >> }

\* rule use_deps; the use_dep rule is quiet and fails as "use dep"
use_deps_marks(s, i, eapi) ==
    LET Close(x) ==
            (IF At(s, x, <<",">>) THEN { << x + 1, "use dep" >> } ELSE { << x, "," >> })
            \cup (IF At(s, x, <<"]">>) THEN GateMark("UseDeps", x + 1, eapi)
                  ELSE { << x, "]" >> })
        First(e) == IF e = 0 THEN { << i + 1, "use dep" >> }
                    ELSE Close(UseDepMore(s, e, << >>, eapi).end)
    IN  IF At(s, i, <<"[">>) THEN First(use_dep(s, i + 1, eapi)) ELSE { << i, "[" >> }

\* rule repo_dep
repo_dep_marks(s, i, eapi) ==
    LET Name(e) == IF e = 0 THEN { << i + 2, "repo name" >> }
                   ELSE GateMark("RepoIds", e, eapi)
    IN  IF At(s, i, <<":", ":">>) THEN Name(repo(s, i + 2)) ELSE { << i, "::" >> }

\* rule dep
dep_marks(s, eapi) ==
    LET End(e) == IF e = Len(s) + 1 THEN {} ELSE { << e, "EOF" >> }
        Repo(e2, r) == repo_dep_marks(s, e2, eapi) \cup End(IF r.ok THEN r.end ELSE e2)
        Use(e1, u) ==
            use_deps_marks(s, e1, eapi)
            \cup Repo(IF u.ok THEN u.end ELSE e1,
                      repo_dep(s, IF u.ok THEN u.end ELSE e1, eapi))
        Slot(d1, sl) ==
            slot_dep_marks(s, d1, eapi)
            \cup Use(IF sl.ok THEN sl.end ELSE d1,
                     use_deps(s, IF sl.ok THEN sl.end ELSE d1, eapi))
        Text(d0, d1) ==
            { << d1, "[^':' | '[']" >> }
            \cup (IF d1 > d0 THEN Slot(d1, slot_dep(s, d1, eapi)) ELSE {})
        Blocked(d0) == Text(d0, RunEnd(s, d0, Chars \ {":", "["}))
        Start(b) == blocker_marks(s, 1, eapi) \cup Blocked(IF b.ok THEN b.end ELSE 1)
    IN  Start(blocker(s, 1, eapi))

\* rule cp
cp_marks(s) ==
    LET End(e) == IF e = 0 THEN {} ELSE IF e = Len(s) + 1 THEN {} ELSE { << e, "EOF" >> }
        Pkg(c, e) == IF e = 0 THEN { << c + 1, "package name" >> } ELSE End(e)
        Cat(c) == IF c = 0 THEN { << 1, "category name" >> }
                  ELSE IF At(s, c, <<"/">>) THEN Pkg(c, package(s, c + 1))
                  ELSE { << c, "/" >> }
    IN  Cat(category(s, 1))

\* rule cpv; rule version fails only where no digit starts it
cpv_marks(s) ==
    LET Ver(p, v) == IF ~v.ok THEN { << p + 1, "['0'..='9']" >> }
                     ELSE IF v.end = Len(s) + 1 THEN {} ELSE { << v.end, "EOF" >> }
        Pkg(c, p) == IF p = 0 THEN { << c + 1, "package name" >> }
                     ELSE IF At(s, p, <<"-">>) THEN Ver(p, version(s, p + 1))
                     ELSE { << p, "-" >> }
        Cat(c) == IF c = 0 THEN { << 1, "category name" >> }
                  ELSE IF At(s, c, <<"/">>) THEN Pkg(c, package(s, c + 1))
                  ELSE { << c, "/" >> }
    IN  Cat(category(s, 1))

\* peg::error::ParseError: the furthest position marked and what was
\* expected there
ParseError(marks) ==
    LET At0(m) == \A n \in marks : n[1] <= m[1]
        Loc(l) == [ location |-> l, expected |-> { m[2] : m \in { n \in marks : n[1] = l } } ]
    IN  Loc((CHOOSE m \in marks : At0(m))[1])

\* The error parse::dep_str returns for an input it rejects: the error of
\* rule dep; or, the dep part being operator + cpv, the one of rule cpv
\* or of with_op; or the one of rule cp on the dep part.
DepStrErr(s, eapi) ==
    LET Versioned(d, w, c) ==
            IF ~c.ok
              THEN [ via |-> "peg_error", msg |-> "invalid dep", input |-> w.cpv, rule |-> "cpv",
                     error |-> ParseError(cpv_marks(w.cpv)) ]
              ELSE [ via |-> "InvalidValue", msg |-> "invalid dep", input |-> s, rule |-> "with_op" ]
        Form(d, w) ==
            IF w.ok THEN Versioned(d, w, cpv(w.cpv))
            ELSE [ via |-> "peg_error", msg |-> "invalid dep", input |-> d.dep, rule |-> "cp",
                   error |-> ParseError(cp_marks(d.dep)) ]
        Parsed(d) ==
            IF ~d.ok
              THEN [ via |-> "peg_error", msg |-> "invalid dep", input |-> s, rule |-> "dep",
                     error |-> ParseError(dep_marks(s, eapi)) ]
              ELSE Form(d, cpv_with_op(d.dep))
    IN  Parsed(dep(s, eapi))

\* parse::dep_str as a Result: the parsed dep, or the error.
DepStrResult(s, eapi) ==
    LET Res(d) == IF d.ok THEN d ELSE [ ok |-> FALSE, err |-> DepStrErr(s, eapi) ]
    IN  Res(dep_str(s, eapi))

(***************************************************************************)
(* OrderedSet (crate::set, not part of the available sources): an         *)
(* insertion-ordered set, modelled as a sequence without duplicates whose *)
(* comparison and hashing go through its elements in order.               *)
(***************************************************************************)
SeqElems(q) == { q[k] : k \in 1..Len(q) }

\* OrderedSet::from_iter: later duplicates are dropped.
RECURSIVE OrderedSetFromIter(_, _)
OrderedSetFromIter(q, acc) ==
    IF Len(q) = 0 THEN acc
    ELSE OrderedSetFromIter(Tail(q),
                            IF Head(q) \in SeqElems(acc) THEN acc ELSE Append(acc, Head(q)))

\* OrderedSet::sort_by / slice::sort: a stable sort, ord[i][j] being the
\* comparison of q[i] and q[j]: the one arrangement of the positions of q
\* that is ordered and keeps equal elements in their original order.
SortBy(q, ord) ==
    LET Arranged(f) == [ k \in 1..Len(q) |-> q[f[k]] ]
    IN  Arranged(CHOOSE f \in [1..Len(q) -> 1..Len(q)] :
                   /\ \A i, j \in 1..Len(q) : i # j => f[i] # f[j]
                   /\ \A i, j \in 1..Len(q) :
                        i < j => \/ ord[f[i]][f[j]] = Less
                                 \/ ord[f[i]][f[j]] = Equal /\ f[i] < f[j])

\* Iterator::cmp over the elements of two ordered sets of strings.
RECURSIVE OrderedSetCmp(_, _)
OrderedSetCmp(x, y) ==
    IF Len(x) = 0 /\ Len(y) = 0 THEN Equal
    ELSE IF Len(x) = 0 THEN Less
    ELSE IF Len(y) = 0 THEN Greater
    ELSE Then(CmpStr(Head(x), Head(y)), OrderedSetCmp(Tail(x), Tail(y)))

\* OrderedSet::symmetric_difference, collected into a HashSet.
SymmetricDifference(x, y) == (SeqElems(x) \ SeqElems(y)) \cup (SeqElems(y) \ SeqElems(x))

(***************************************************************************)
(* Atom: crates/pkgcraft/src/atom.rs.                                     *)
(***************************************************************************)

\* u.chars().find(|c| c >= '0'): the first letter or number of a USE dep.
RECURSIVE FirstSortChar(_)
FirstSortChar(u) ==
    IF Len(u) = 0 THEN None
    ELSE IF CharCode[Head(u)] >= CharCode["0"] THEN Some(Head(u))
    ELSE FirstSortChar(Tail(u))

UseDepSortCmp(u1, u2) ==
    LET Found(c1, c2) == CmpOpt(c1, c2, CmpChar(c1[1], c2[1]))
    IN  Found(FirstSortChar(u1), FirstSortChar(u2))

\* The comparisons of the elements of q by the closure of sort_by.
UseDepOrd(q) ==
    [ i \in 1..Len(q) |-> [ j \in 1..Len(q) |-> UseDepSortCmp(q[i], q[j]) ] ]

\* set.sort_by(..) on the set q.
UseDepsSorted(q) == SortBy(q, UseDepOrd(q))

\* An into_owned that leaves out the sort_by call.
UseDepsUnsorted(u) == OrderedSetFromIter(u, << >>)

\* The use-dependency set of an owned atom.
UseDepsIntoOwned(u) == UseDepsSorted(OrderedSetFromIter(u, << >>))

\* The string an owned atom keeps as `full`.
AtomFull(s) == s

\* ParsedAtom::into_owned
IntoOwned(d, s) ==
    [ ok       |-> TRUE,
      full     |-> AtomFull(s),
      category |-> d.category,
      package  |-> d.package,
      blocker  |-> d.blocker,
      version  |-> IF IsSome(d.version) /\ IsSome(d.version_str)
                     THEN Some(ParsedVersionIntoOwned(d.version[1], d.version_str[1]))
                     ELSE None,
      slot     |-> d.slot,
      subslot  |-> d.subslot,
      slot_op  |-> d.slot_op,
      use_deps |-> IF IsSome(d.use_deps) THEN Some(UseDepsIntoOwned(d.use_deps[1])) ELSE None,
      repo     |-> d.repo ]

\* Every feature the atom grammar consults; EAPI_PKGCRAFT, the EAPI of
\* Atom::from_str, has them all.
AtomFeatures ==
    { "Blockers", "SlotDeps", "SlotOps", "Subslots", "UseDeps", "UseDepDefaults", "RepoIds" }

EAPI_PKGCRAFT == AtomFeatures

\* An EAPI without slot operators and repository ids.
EAPI_PLAIN == AtomFeatures \ { "SlotOps", "RepoIds" }

\* parse::dep (without its cache): Atom::new
AtomNew(s, eapi) ==
    LET Owned(d) == IF d.ok THEN IntoOwned(d, s) ELSE Fail
    IN  Owned(dep_str(s, eapi))

\* impl FromStr for Atom
AtomFromStr(s) == AtomNew(s, EAPI_PKGCRAFT)

\* parse::cpv / Atom::new_cpv: category/package-version without operator
AtomNewCpv(s) ==
    LET Owned(c) ==
            IF ~c.ok THEN Fail
            ELSE IntoOwned([ category |-> c.category, package |-> c.package,
                             blocker |-> None, version |-> Some(c.version),
                             version_str |-> Some(s), slot |-> None, subslot |-> None,
                             slot_op |-> None, use_deps |-> None, repo |-> None ], s)
    IN  Owned(cpv(s))

\* rule version_with_op / parse::version_with_op: operator, version,
\* optional "*", over the whole input
version_with_op(s) ==
    LET Made(o, v) ==
            IF o = 0 \/ ~v.ok THEN Fail
            ELSE IF (IF At(s, v.end, <<"*">>) THEN v.end + 1 ELSE v.end) # Len(s) + 1 THEN Fail
            ELSE ParsedVersionWithOp(v, Slice(s, 1, o + 1), At(s, v.end, <<"*">>))
        Owned(v) == IF v.ok THEN ParsedVersionIntoOwned(v, s) ELSE Fail
        Ver(o) == Owned(Made(o, version(s, o + 1)))
    IN  Ver(IF At(s, 1, <<"<", "=">>) \/ At(s, 1, <<">", "=">>) THEN 2
            ELSE IF Len(s) >= 1 /\ s[1] \in {"<", "=", "~", ">"} THEN 1 ELSE 0)

\* ver_parse of test_intersects: Version::new, falling back to
\* Version::new_with_op
ver_parse(s) ==
    LET Or(v) == IF v.ok THEN v ELSE version_with_op(s)
    IN  Or(ParseVersion(s))

\* The text of an atom's version without operator and glob.
VersionText(x) == IF IsSome(x.version) THEN x.version[1].full ELSE << >>

\* test_intersects: the version parsed from the text t put into an atom
\* that carries a version
InjectVersion(x, t) ==
    IF IsSome(x.version) THEN [ x EXCEPT !.version = Some(ver_parse(t)) ] ELSE x

\* The rendering of an atom from its components (atom_to_string of the
\* tests, the Display of the older src/atom.rs): blocker, operator + cpv
\* (+ "*"), slot block, "[use,deps]", "::repo".
RECURSIVE JoinComma(_)
JoinComma(q) ==
    IF Len(q) = 0 THEN << >>
    ELSE IF Len(q) = 1 THEN q[1]
    ELSE q[1] \o <<",">> \o JoinComma(Tail(q))

OperatorText(o) ==
    CASE o = "Less" -> <<"<">>  [] o = "LessOrEqual" -> <<"<", "=">>
      [] o = "Equal" -> <<"=">> [] o = "EqualGlob" -> <<"=">>
      [] o = "Approximate" -> <<"~">>
      [] o = "GreaterOrEqual" -> <<">", "=">> [] o = "Greater" -> <<">">>

ComposeAtom(blk, ver, cat, pkg, slot, sub, slot_op, use, rep) ==
    (IF IsSome(blk) THEN (IF blk[1] = "Strong" THEN <<"!", "!">> ELSE <<"!">>) ELSE << >>)
    \o (IF IsSome(ver) /\ IsSome(ver[1].op) THEN OperatorText(ver[1].op[1]) ELSE << >>)
    \o cat \o <<"/">> \o pkg
    \o (IF IsSome(ver) THEN <<"-">> \o ver[1].full ELSE << >>)
    \o (IF IsSome(ver) /\ ver[1].op = Some("EqualGlob") THEN <<"*">> ELSE << >>)
    \o (IF IsSome(slot) \/ IsSome(slot_op) THEN <<":">> ELSE << >>)
    \o (IF IsSome(slot) THEN slot[1] ELSE << >>)
    \o (IF IsSome(slot) /\ IsSome(sub) THEN <<"/">> \o sub[1] ELSE << >>)
    \o (IF IsSome(slot_op) THEN (IF slot_op[1] = "Equal" THEN <<"=">> ELSE <<"*">>) ELSE << >>)
    \o (IF IsSome(use) THEN <<"[">> \o JoinComma(use[1]) \o <<"]">> ELSE << >>)
    \o (IF IsSome(rep) THEN <<":", ":">> \o rep[1] ELSE << >>)

\* atom_to_string: the components of the owned atom.
AtomComposed(a) ==
    ComposeAtom(a.blocker, a.version, a.category, a.package, a.slot, a.subslot,
                a.slot_op, a.use_deps, a.repo)

\* A Display that writes the atom from its components.
AtomToStringFromParts(a) == AtomComposed(a)

\* impl Display for Atom
AtomToString(a) == a.full

(***************************************************************************)
(* Version intersection and hashing (dep/version.rs, modelled after       *)
(* section 4.1): an operator and a version denote a set of versions, two  *)
(* versions intersect iff some version lies in both sets.                 *)
(***************************************************************************)

\* The version without its revision, as text and as value.
BaseStr(v) == IF IsSome(v.revision.s)
                THEN SubSeq(v.full, 1, Len(v.full) - 2 - Len(v.revision.s[1]))
                ELSE v.full

NonRevisionCmp(a, b) ==
    VersionCmp([ a EXCEPT !.revision = [ s |-> None, n |-> 0 ] ],
               [ b EXCEPT !.revision = [ s |-> None, n |-> 0 ] ])

IsPrefix(p, s) == Len(p) <= Len(s) /\ SubSeq(s, 1, Len(p)) = p

VersionOp(v) == IF IsSome(v.op) THEN v.op[1] ELSE "Equal"

\* TRUE iff the plain version w lies in the set denoted by the operator
\* and version of c.
Satisfies(c, w) ==
    LET By(op, o) ==
            CASE op = "Less"           -> o = Less
              [] op = "LessOrEqual"    -> o # Greater
              [] op = "Equal"          -> o = Equal
              [] op = "EqualGlob"      -> IsPrefix(BaseStr(c), BaseStr(w))
              [] op = "Approximate"    -> NonRevisionCmp(w, c) = Equal
              [] op = "GreaterOrEqual" -> o # Less
              [] op = "Greater"        -> o = Greater
    IN  By(VersionOp(c), VersionCmp(w, c))

\* Decimal text of a number (u64 Display).
RECURSIVE ToDigits(_)
ToDigits(n) ==
    IF n < 10 THEN << Alphabet[CharCode["0"] + n] >>
    ELSE Append(ToDigits(n \div 10), Alphabet[CharCode["0"] + (n % 10)])

Nines(n) == [ k \in 1..n |-> "9" ]

\* Versions around v that decide whether a set bounded by v meets another
\* one: v itself, its base with revision 0, with the revision following its
\* own and the one following the other version's, a version below every
\* version of the same base (an extra _alpha suffix), and a version whose
\* text extends the base by more digits than the other version has.
Around(v, other) ==
    LET Texts(base) ==
            { v.full, base,
              base \o <<"-", "r">> \o ToDigits(v.revision.n + 1),
              base \o <<"-", "r">> \o ToDigits(other.revision.n + 1),
              base \o <<"_", "a", "l", "p", "h", "a">>,
              base \o Nines(Len(other.full)) }
        Valid(parsed) == { w \in parsed : w.ok }
    IN  Valid({ ParseVersion(t) : t \in Texts(BaseStr(v)) })

Downward(v) == VersionOp(v) \in {"Less", "LessOrEqual"}

Upward(v) == VersionOp(v) \in {"Greater", "GreaterOrEqual"}

\* Version::intersects
VersionIntersects(a, b) ==
    \/ Downward(a) /\ Downward(b)
    \/ Upward(a) /\ Upward(b)
    \/ \E w \in UNION { Around(x[1], x[2]) : x \in { <<a, b>>, <<b, a>> } } :
          \A c \in {a, b} : Satisfies(c, w)

\* What impl Hash for Version feeds the hasher: the values comparison looks
\* at, so that versions comparing equal hash alike.
VersionHash(v) ==
    << v.numbers[1].n,
       [ k \in 1..(Len(v.numbers) - 1) |-> v.numbers[k + 1].s ],
       v.letter,
       [ k \in 1..Len(v.suffixes) |-> SuffixAt(v, k) ],
       v.revision.n >>

(***************************************************************************)
(* Atom key, ordering, equality, hashing and intersection.                *)
(***************************************************************************)
BlockerRank(b) == IF b = "Strong" THEN 1 ELSE 2

SlotOperatorRank(o) == IF o = "Equal" THEN 1 ELSE 2

CmpBlocker(x, y) == CmpInt(BlockerRank(x), BlockerRank(y))

CmpSlotOperator(x, y) == CmpInt(SlotOperatorRank(x), SlotOperatorRank(y))

\* A key with package and category exchanged.
AtomKeyPackageFirst(a) ==
    << a.package, a.category, a.version, a.blocker, a.slot, a.subslot,
       a.slot_op, a.use_deps, a.repo >>

\* Atom::key
AtomKey(a) ==
    << a.category, a.package, a.version, a.blocker, a.slot, a.subslot,
       a.slot_op, a.use_deps, a.repo >>

\* Comparison of the key position k of two keys.
CmpKeyAt(x, y, k) ==
    CASE k \in {1, 2} -> CmpStr(x[k], y[k])
      [] k = 3        -> CmpOpt(x[k], y[k], VersionCmp(x[k][1], y[k][1]))
      [] k = 4        -> CmpOpt(x[k], y[k], CmpBlocker(x[k][1], y[k][1]))
      [] k \in {5, 6, 9} -> CmpOpt(x[k], y[k], CmpStr(x[k][1], y[k][1]))
      [] k = 7        -> CmpOpt(x[k], y[k], CmpSlotOperator(x[k][1], y[k][1]))
      [] k = 8        -> CmpOpt(x[k], y[k], OrderedSetCmp(x[k][1], y[k][1]))

\* impl Ord for a tuple: the first non-equal position decides.
RECURSIVE CmpKeyFrom(_, _, _)
CmpKeyFrom(x, y, k) ==
    IF k > Len(x) THEN Equal
    ELSE Then(CmpKeyAt(x, y, k), CmpKeyFrom(x, y, k + 1))

\* impl Ord for Atom
AtomCmp(a, b) == CmpKeyFrom(AtomKey(a), AtomKey(b), 1)

\* deps.sort() on a Vec of atoms.
SortAtoms(q) ==
    SortBy(q, [ i \in 1..Len(q) |-> [ j \in 1..Len(q) |-> AtomCmp(q[i], q[j]) ] ])

\* impl PartialEq for Atom
AtomEq(a, b) == AtomCmp(a, b) = Equal

\* A Hash that feeds the hasher the original string next to the key.
HashedKeyWithText(a) == Append(AtomKey(a), a.full)

\* The values impl Hash for Atom feeds the hasher.
HashedKey(a) == AtomKey(a)

\* impl Hash for Atom: the key, its version hashed as a Version.
AtomHash(a) ==
    LET k == HashedKey(a)
    IN  [ k EXCEPT ![3] = IF IsSome(k[3]) THEN Some(VersionHash(k[3][1])) ELSE None ]

\* The flags of the first set only (difference instead of
\* symmetric_difference).
IntersectFlagsOneSided(x, y) == SeqElems(x) \ SeqElems(y)

\* The flags of both sets (union instead of symmetric_difference).
IntersectFlagsUnion(x, y) == SeqElems(x) \cup SeqElems(y)

\* The flags of the two USE-dependency sets that Atom::intersects looks at.
IntersectFlags(x, y) == SymmetricDifference(x, y)

\* TRUE iff some "-flag" of flags has its "flag" in flags as well.
FlagsConflict(flags) ==
    \E f \in flags : /\ Head(f) = "-"
                     /\ Tail(f) \in flags

\* An intersects that compares the slots without asking whether both are
\* present.
AtomIntersectsStrictSlot(a, b) ==
    IF a.category # b.category THEN FALSE
    ELSE IF a.package # b.package THEN FALSE
    ELSE IF a.slot # b.slot THEN FALSE
    ELSE IF IsSome(a.subslot) /\ IsSome(b.subslot) /\ a.subslot[1] # b.subslot[1] THEN FALSE
    ELSE IF /\ IsSome(a.use_deps) /\ IsSome(b.use_deps)
            /\ FlagsConflict(IntersectFlags(a.use_deps[1], b.use_deps[1])) THEN FALSE
    ELSE IF IsSome(a.repo) /\ IsSome(b.repo) /\ a.repo[1] # b.repo[1] THEN FALSE
    ELSE IF IsSome(a.version) /\ IsSome(b.version)
      THEN VersionIntersects(a.version[1], b.version[1])
    ELSE TRUE

\* Atom::intersects
AtomIntersects(a, b) ==
    IF a.category # b.category THEN FALSE
    ELSE IF a.package # b.package THEN FALSE
    ELSE IF IsSome(a.slot) /\ IsSome(b.slot) /\ a.slot[1] # b.slot[1] THEN FALSE
    ELSE IF IsSome(a.subslot) /\ IsSome(b.subslot) /\ a.subslot[1] # b.subslot[1] THEN FALSE
    ELSE IF /\ IsSome(a.use_deps) /\ IsSome(b.use_deps)
            /\ FlagsConflict(IntersectFlags(a.use_deps[1], b.use_deps[1])) THEN FALSE
    ELSE IF IsSome(a.repo) /\ IsSome(b.repo) /\ a.repo[1] # b.repo[1] THEN FALSE
    ELSE IF IsSome(a.version) /\ IsSome(b.version)
      THEN VersionIntersects(a.version[1], b.version[1])
    ELSE TRUE

(***************************************************************************)
(* DepSet: the tree of src/depset.rs (a leaf with its enabled flag, the   *)
(* groups over lists of children) and the grammars of parse.rs.  A rule   *)
(* takes the input and a position and returns the position after the      *)
(* match with the node built.                                             *)
(***************************************************************************)
Matches(val, on) == [ t |-> "Matches", val |-> val, on |-> on ]

Group(t, vals) == [ t |-> t, vals |-> vals ]

UseGroup(t, flag, vals) == [ t |-> t, flag |-> flag, vals |-> vals ]

\* [^' ']
NonSpace == Chars \ {" "}

\* Ordered choice: the first alternative that matches.
OrElse(r, alt) == IF r.ok THEN r ELSE alt

\* rule properties_restrict_val
properties_restrict_val(s, i) ==
    LET Made(e) == IF e # 0
                     THEN [ ok |-> TRUE, end |-> e, val |-> Matches(Slice(s, i, e), TRUE) ]
                     ELSE Fail
    IN  Made(IF i <= Len(s) /\ s[i] \in NameStart THEN RunEnd(s, i + 1, NameRest) ELSE 0)

\* rule license_val
license_val(s, i) ==
    LET Made(e) == IF e # 0
                     THEN [ ok |-> TRUE, end |-> e, val |-> Matches(Slice(s, i, e), TRUE) ]
                     ELSE Fail
    IN  Made(IF i <= Len(s) /\ s[i] \in NameStart THEN RunEnd(s, i + 1, NameRest) ELSE 0)

\* rule use_flag_val: "!"? use_flag()
use_flag_val(s, i) ==
    LET Made(from, e) ==
            IF e # 0
              THEN [ ok |-> TRUE, end |-> e, val |-> Matches(Slice(s, from, e), from = i) ]
              ELSE Fail
        Flag(from) == Made(from, use_flag(s, from))
    IN  Flag(IF At(s, i, <<"!">>) THEN i + 1 ELSE i)

\* rule pkg_val: $(!")" [^' ']+), accepted when Dep::new accepts the token
pkg_val(s, i, eapi) ==
    LET Made(e, d) ==
            IF e > i /\ ~At(s, i, <<")">>) /\ d.ok
              THEN [ ok |-> TRUE, end |-> e, val |-> Matches(d, TRUE) ]
              ELSE Fail
        Token(e) == Made(e, AtomNew(Slice(s, i, e), eapi))
    IN  Token(RunEnd(s, i, NonSpace))

\* Uri::new: the file name is the rename, else what follows the last "/"
\* of the URI; a URI without file name is invalid.
UriNew(uri, rename) ==
    LET Slashes == { k \in 1..Len(uri) : uri[k] = "/" }
        Named(from) ==
            IF IsSome(rename) \/ from <= Len(uri)
              THEN [ ok |-> TRUE, uri |-> uri, rename |-> rename ]
              ELSE Fail
    IN  Named(IF Slashes = {} THEN 1
              ELSE 1 + CHOOSE k \in Slashes : \A j \in Slashes : j <= k)

\* rule uri_val: $(!")" [^' ']+) (_ "->" _ $([^' ']+))?
uri_val(s, i, eapi) ==
    LET Built(u, end) ==
            IF u.ok THEN [ ok |-> TRUE, end |-> end,
                           val |-> Matches([ uri |-> u.uri, rename |-> u.rename ], TRUE) ]
            ELSE Fail
        Made(e, r) ==
            IF ~(e > i /\ ~At(s, i, <<")">>)) THEN Fail
            ELSE IF r > e + 4 /\ "SrcUriRenames" \notin eapi THEN Fail
            ELSE IF r > e + 4 THEN Built(UriNew(Slice(s, i, e), Some(Slice(s, e + 4, r))), r)
            ELSE Built(UriNew(Slice(s, i, e), None), e)
        Rename(e) ==
            Made(e, IF At(s, e, <<" ", "-", ">", " ">>) THEN RunEnd(s, e + 4, NonSpace) ELSE 0)
    IN  Rename(RunEnd(s, i, NonSpace))

RECURSIVE dep_restrict(_, _, _, _)

\* expr() ++ " ": one expression, then greedily a space and an expression
RECURSIVE ExprList(_, _, _, _)
ExprList(s, i, kind, eapi) ==
    LET More(r, tail) ==
            IF tail.ok
              THEN [ ok |-> TRUE, end |-> tail.end, vals |-> << r.val >> \o tail.vals ]
              ELSE [ ok |-> TRUE, end |-> r.end, vals |-> << r.val >> ]
        Rest(r) ==
            IF ~r.ok THEN Fail
            ELSE More(r, IF At(s, r.end, <<" ">>)
                           THEN ExprList(s, r.end + 1, kind, eapi) ELSE Fail)
    IN  Rest(dep_restrict(s, i, kind, eapi))

\* parens taking "( )" for a group without children.
parens_or_empty(s, i, kind, eapi) ==
    LET Close(v) ==
            IF v.ok /\ At(s, v.end, <<" ", ")">>)
              THEN [ ok |-> TRUE, end |-> v.end + 2, vals |-> v.vals ]
              ELSE Fail
    IN  IF At(s, i, <<"(", " ", ")">>) THEN [ ok |-> TRUE, end |-> i + 3, vals |-> << >> ]
        ELSE IF At(s, i, <<"(", " ">>) THEN Close(ExprList(s, i + 2, kind, eapi))
        ELSE Fail

\* rule parens: "(" _ v:expr() ++ " " _ ")"
parens(s, i, kind, eapi) ==
    LET Close(v) ==
            IF v.ok /\ At(s, v.end, <<" ", ")">>)
              THEN [ ok |-> TRUE, end |-> v.end + 2, vals |-> v.vals ]
              ELSE Fail
    IN  IF At(s, i, <<"(", " ">>) THEN Close(ExprList(s, i + 2, kind, eapi)) ELSE Fail

\* A group made of the children that parens returned.
GroupOf(t, v) ==
    IF v.ok THEN [ ok |-> TRUE, end |-> v.end, val |-> Group(t, v.vals) ] ELSE Fail

\* rule all_of
all_of(s, i, kind, eapi) == GroupOf("AllOf", parens(s, i, kind, eapi))

\* rule any_of: "||" _ parens
any_of(s, i, kind, eapi) ==
    IF At(s, i, <<"|", "|", " ">>)
      THEN GroupOf("AnyOf", parens(s, i + 3, kind, eapi)) ELSE Fail

\* rule use_cond: "!"? use_flag() "?" _ parens
use_cond(s, i, kind, eapi) ==
    LET Made(from, f, v) ==
            IF v.ok
              THEN [ ok |-> TRUE, end |-> v.end,
                     val |-> UseGroup(IF from = i THEN "UseEnabled" ELSE "UseDisabled",
                                      Slice(s, from, f), v.vals) ]
              ELSE Fail
        Cond(from, f) ==
            IF f # 0 /\ At(s, f, <<"?", " ">>)
              THEN Made(from, f, parens(s, f + 2, kind, eapi)) ELSE Fail
        Flag(from) == Cond(from, use_flag(s, from))
    IN  Flag(IF At(s, i, <<"!">>) THEN i + 1 ELSE i)

\* rule exactly_one_of: "^^" _ parens
exactly_one_of(s, i, kind, eapi) ==
    IF At(s, i, <<"^", "^", " ">>)
      THEN GroupOf("ExactlyOneOf", parens(s, i + 3, kind, eapi)) ELSE Fail

\* rule at_most_one_of: "??" _ parens, gated by RequiredUseOneOf
at_most_one_of(s, i, kind, eapi) ==
    LET Gate(g) == IF g.ok /\ "RequiredUseOneOf" \notin eapi THEN Fail ELSE g
    IN  IF At(s, i, <<"?", "?", " ">>)
          THEN Gate(GroupOf("AtMostOneOf", parens(s, i + 3, kind, eapi))) ELSE Fail

\* The grammars that know "||".
AnyOfKinds == { "license", "required_use", "dependencies" }

\* The leaf rule of each grammar.
LeafVal(s, i, kind, eapi) ==
    CASE kind = "license"      -> license_val(s, i)
      [] kind = "src_uri"      -> uri_val(s, i, eapi)
      [] kind = "properties"   -> properties_restrict_val(s, i)
      [] kind = "required_use" -> use_flag_val(s, i)
      [] kind = "restrict"     -> properties_restrict_val(s, i)
      [] kind = "dependencies" -> pkg_val(s, i, eapi)

\* rules license_dep_restrict, src_uri_dep_restrict, properties_dep_restrict,
\* required_use_dep_restrict, restrict_dep_restrict, dependencies_restrict:
\* the alternatives of the grammar `kind`, in their order
dep_restrict(s, i, kind, eapi) ==
    OrElse(use_cond(s, i, kind, eapi),
    OrElse(IF kind \in AnyOfKinds THEN any_of(s, i, kind, eapi) ELSE Fail,
    OrElse(all_of(s, i, kind, eapi),
    OrElse(IF kind = "required_use" THEN exactly_one_of(s, i, kind, eapi) ELSE Fail,
    OrElse(IF kind = "required_use" THEN at_most_one_of(s, i, kind, eapi) ELSE Fail,
           LeafVal(s, i, kind, eapi))))))

\* rules license, src_uri, properties, required_use, restrict, dependencies:
\* v:X_dep_restrict() ++ " " over the whole input, collected into a DepSet
DepSetRule(s, kind, eapi) ==
    LET Whole(v) == IF v.ok /\ v.end = Len(s) + 1
                      THEN [ ok |-> TRUE, deps |-> v.vals ] ELSE Fail
    IN  Whole(ExprList(s, 1, kind, eapi))

\* The public functions license, src_uri, properties, required_use,
\* restrict, dependencies: Ok(None) for the empty string, else Ok(Some(..))
\* or the error.
ParseDepSet(kind, s, eapi) ==
    LET Mapped(d) == IF d.ok THEN [ ok |-> TRUE, val |-> Some([ deps |-> d.deps ]) ] ELSE Fail
    IN  IF s = << >> THEN [ ok |-> TRUE, val |-> None ]
        ELSE Mapped(DepSetRule(s, kind, eapi))

license(s) == ParseDepSet("license", s, {})

src_uri(s, eapi) == ParseDepSet("src_uri", s, eapi)

properties(s) == ParseDepSet("properties", s, {})

required_use(s, eapi) == ParseDepSet("required_use", s, eapi)

restrict(s) == ParseDepSet("restrict", s, {})

dependencies(s, eapi) == ParseDepSet("dependencies", s, eapi)

(***************************************************************************)
(* Display of a DepSet (src/depset.rs).                                   *)
(***************************************************************************)
RECURSIVE JoinSpace(_)
JoinSpace(q) ==
    IF Len(q) = 0 THEN << >>
    ELSE IF Len(q) = 1 THEN q[1]
    ELSE q[1] \o <<" ">> \o JoinSpace(Tail(q))

\* A Display for Uri that leaves the rename out.
UriToStringNoRename(u) == u.uri

\* impl Display for Uri
UriToString(u) ==
    IF IsSome(u.rename) THEN u.uri \o <<" ", "-", ">", " ">> \o u.rename[1] ELSE u.uri

\* Display of a leaf value: a string, a Uri or an atom.
LeafToString(kind, val) ==
    CASE kind = "dependencies" -> AtomToString(val)
      [] kind = "src_uri"      -> UriToString(val)
      [] OTHER                 -> val

\* impl Display for DepRestrict
RECURSIVE DepRestrictToString(_, _)
DepRestrictToString(kind, d) ==
    LET P(vals) == JoinSpace([ k \in 1..Len(vals) |-> DepRestrictToString(kind, vals[k]) ])
        Parens(vals) == <<"(", " ">> \o P(vals) \o <<" ", ")">>
    IN  CASE d.t = "Matches"      -> (IF d.on THEN << >> ELSE <<"!">>) \o LeafToString(kind, d.val)
          [] d.t = "AllOf"        -> Parens(d.vals)
          [] d.t = "AnyOf"        -> <<"|", "|", " ">> \o Parens(d.vals)
          [] d.t = "ExactlyOneOf" -> <<"^", "^", " ">> \o Parens(d.vals)
          [] d.t = "AtMostOneOf"  -> <<"?", "?", " ">> \o Parens(d.vals)
          [] d.t = "UseEnabled"   -> d.flag \o <<"?", " ">> \o Parens(d.vals)
          [] d.t = "UseDisabled"  -> <<"!">> \o d.flag \o <<"?", " ">> \o Parens(d.vals)

\* impl Display for DepSet
DepSetToString(kind, d) ==
    JoinSpace([ k \in 1..Len(d.deps) |-> DepRestrictToString(kind, d.deps[k]) ])

(***************************************************************************)
(* Flattening (src/depset.rs, types/deque.rs).                            *)
(***************************************************************************)

\* An extend that puts the items behind the deque.
extend_right(deque, items) == deque \o items

\* Deque::extend_left: push_front of the items, last one first
RECURSIVE extend_left(_, _)
extend_left(deque, items) ==
    IF Len(items) = 0 THEN deque
    ELSE extend_left(<< items[Len(items)] >> \o deque, SubSeq(items, 1, Len(items) - 1))

\* DepSet::flatten: the iterator over the top-level expressions
flatten(d) == [ deps |-> d.deps ]

\* DepSetFlatten::next: the item returned and the deque left
RECURSIVE DepSetFlattenNext(_)
DepSetFlattenNext(deps) ==
    IF Len(deps) = 0 THEN [ item |-> None, deps |-> deps ]
    ELSE IF Head(deps).t = "Matches"
      THEN [ item |-> Some(Head(deps).val), deps |-> Tail(deps) ]
    ELSE DepSetFlattenNext(extend_left(Tail(deps), Head(deps).vals))

\* The nodes of a tree, parents before children and children from left
\* to right (enum DepRestrict).
RECURSIVE NodesOf(_)
NodesOf(d) ==
    LET RECURSIVE NodesOfList(_)
        NodesOfList(vals) ==
            IF Len(vals) = 0 THEN << >> ELSE NodesOf(Head(vals)) \o NodesOfList(Tail(vals))
    IN  << d >> \o (IF d.t = "Matches" THEN << >> ELSE NodesOfList(d.vals))

\* The nodes of a DepSet (struct DepSet).
DepSetNodes(d) == NodesOf(Group("AllOf", d.deps))

\* The leaf values of a DepSet in the order of the tree, left to right.
LeavesOf(d) ==
    LET Leaf(n) == n.t = "Matches"
        Vals(q) == [ k \in 1..Len(q) |-> q[k].val ]
    IN  Vals(SelectSeq(DepSetNodes(d), Leaf))


(***************************************************************************)
(* Restrictions: src/restrict.rs.  A restriction is a tree; a string      *)
(* restriction is its leaf and the object matched is a string.            *)
(***************************************************************************)

\* Restrict::True, Restrict::False, Restrict::Str(Str::Equal(..))
RestrictTrue == [ t |-> "True" ]

RestrictFalse == [ t |-> "False" ]

StrEqual(x) == [ t |-> "Str", r |-> [ t |-> "Equal", s |-> x ] ]

\* impl Restriction<&str> for Str
RECURSIVE StrMatches(_, _)
StrMatches(r, val) ==
    CASE r.t = "Equal" -> val = r.s
      [] r.t = "Not"   -> ~StrMatches(r.r, val)

\* An exclusive-or in the sense of parity: an odd number of matches.
RECURSIVE XorParity(_)
XorParity(ms) ==
    IF Len(ms) = 0 THEN FALSE ELSE (Head(ms) # XorParity(Tail(ms)))

\* The loop of the Xor arm over the results ms of the children: true at
\* the first result that differs from the one before it.
XorMatches(ms) == \E k \in 2..Len(ms) : ms[k] # ms[k - 1]

\* restrict_match!, as expanded in impl Restriction<&str> for Restrict
RECURSIVE restrict_match(_, _)
restrict_match(r, obj) ==
    CASE r.t = "Str"   -> StrMatches(r.r, obj)
      [] r.t = "True"  -> TRUE
      [] r.t = "False" -> FALSE
      [] r.t = "And"   -> \A k \in 1..Len(r.vals) : restrict_match(r.vals[k], obj)
      [] r.t = "Or"    -> \E k \in 1..Len(r.vals) : restrict_match(r.vals[k], obj)
      [] r.t = "Xor"   -> XorMatches([ k \in 1..Len(r.vals) |-> restrict_match(r.vals[k], obj) ])
      [] r.t = "Not"   -> ~restrict_match(r.r, obj)
      [] OTHER         -> FALSE

\* The loop of Restrict::and / or / xor: the children of an item of the
\* same kind are spliced in, any other item is pushed.
RECURSIVE Flattened(_, _, _)
Flattened(kind, q, restricts) ==
    IF Len(q) = 0 THEN restricts
    ELSE Flattened(kind, Tail(q),
                   IF Head(q).t = kind THEN restricts \o Head(q).vals
                   ELSE Append(restricts, Head(q)))

\* Restrict::and, Restrict::or, Restrict::xor
and(q) == [ t |-> "And", vals |-> Flattened("And", q, << >>) ]

or(q) == [ t |-> "Or", vals |-> Flattened("Or", q, << >>) ]

xor(q) == [ t |-> "Xor", vals |-> Flattened("Xor", q, << >>) ]

\* impl BitAnd / BitOr / BitXor / Not for Restrict
bitand(x, rhs) == and(<< x, rhs >>)

bitor(x, rhs) == or(<< x, rhs >>)

bitxor(x, rhs) == xor(<< x, rhs >>)

not(x) == [ t |-> "Not", r |-> x ]

\* The enum constructor applied to the items as they are.
Nested(kind, q) == [ t |-> kind, vals |-> q ]

\* The most operators applied to a restriction.
MaxRestrictOps == 2

RestrictLeaves == { RestrictTrue, RestrictFalse, StrEqual(<<"x">>) }

RestrictObjects == { <<"x">>, <<"y">> }

(***************************************************************************)
(* Inputs of the atom state machine.  An input string is a head (blocker, *)
(* operator, category/package, version, glob) followed by a tail (slot    *)
(* block, USE dependencies, repository).                                  *)
(***************************************************************************)

\* The sequences of length n over the set S.
RECURSIVE Tuples(_, _)
Tuples(S, n) ==
    IF n = 0 THEN { << >> }
    ELSE { Append(q, x) : q \in Tuples(S, n - 1), x \in S }

\* Largest version number used in the inputs.
MaxVersion == 2

\* Longest USE-dependency list used in the inputs.
MaxUseDeps == 2

\* Length of the atom lists that are sorted.
MaxSortLen == 3

CP == <<"c", "a", "t", "/", "p", "k", "g">>

OperatorTexts == { <<"<">>, <<"<", "=">>, <<"=">>, <<"~">>, <<">", "=">>, <<">">> }

VersionedHeads ==
    { o \o CP \o <<"-">> \o ToDigits(n) : o \in OperatorTexts, n \in 1..MaxVersion }

Heads ==
    VersionedHeads \cup
    { CP,
      <<"c", "a", "t", "/", "p", "k">>,
      <<"c", "a", "/", "p", "k", "g">>,
      <<"!">> \o CP,
      <<"!", "!">> \o CP,
      <<"!", "!", "<">> \o CP \o <<"-", "1">>,
      <<"=">> \o CP \o <<"-", "1", "-", "r", "0">>,
      <<"=">> \o CP \o <<"-", "1", "-", "r", "0", "1">>,
      <<"=">> \o CP \o <<"-", "1", "*">>,
      <<">", "=">> \o CP \o <<"-", "r", "1", "-", "2", "-", "r", "3">>,
      CP \o <<"[", "u", ",", "u", "]">>,
      CP \o <<"[", "a", "b", ",", "a", "a", "]">>,
      CP \o <<"[", "a", "a", ",", "a", "b", "]">>,
      \* rejected by the grammar
      CP \o <<"-", "1">>,
      <<"=">> \o CP,
      <<"~">> \o CP \o <<"-", "1", "-", "r", "1">> }

UseDepChoices == { <<"a">>, <<"b">>, <<"-", "a">>, <<"-", "a", "(", "+", ")">> }

UseLists == UNION { Tuples(UseDepChoices, n) : n \in 1..MaxUseDeps }

UseTails == { <<"[">> \o JoinComma(u) \o <<"]">> : u \in UseLists }

Tails ==
    { << >>,
      <<":", "0">>, <<":", "1">>, <<":", "2">>, <<":", "0", "/", "1">>, <<":", "0", "/", "2">>,
      <<":", "0", "=">>, <<":", "0", "/", "1", "=">>, <<":", "=">>, <<":", "*">>,
      <<":", ":", "r", "e", "p", "o">>, <<":", ":", "r", "2">>,
      <<":", "0", "/", "2", "=", "[", "a", "]", ":", ":", "r", "e", "p", "o">>,
      <<":", "1", "[", "-", "a", "]", ":", ":", "r", "2">> }

BasicHeads == { CP, <<"=">> \o CP \o <<"-", "1">>, <<"!">> \o CP }

AtomInputs ==
    { h \o t : h \in BasicHeads, t \in Tails } \cup { CP \o t : t \in UseTails } \cup Heads

VersionInputs ==
    { <<"0">>, <<"0", "-", "r", "0">>,
      <<"1">>, <<"1", ".", "0">>, <<"1", ".", "0", ".", "0">>, <<"1", ".", "0", ".", "1">>,
      <<"1", ".", "1">>, <<"1", ".", "0", "1">>, <<"1", ".", "1", "0">>, <<"1", ".", "0", "0", "9">>,
      <<"0", "1">>, <<"2">>,
      <<"1", "a">>, <<"1", "b">>,
      <<"1", "_", "a", "l", "p", "h", "a">>, <<"1", "_", "b", "e", "t", "a">>,
      <<"1", "_", "p", "r", "e">>, <<"1", "_", "r", "c">>, <<"1", "_", "p">>,
      <<"1", "_", "p", "0">>, <<"1", "_", "p", "1">>, <<"1", "_", "p", "2">>,
      <<"1", "_", "p", "_", "a", "l", "p", "h", "a">>,
      <<"1", "_", "a", "l", "p", "h", "a", "_", "p">>,
      <<"1", "-", "r", "1">>, <<"1", "-", "r", "2">>, <<"1", "-", "r", "0", "1">>,
      \* rejected by the grammar
      <<"1", ".">>, <<"1", "_", "x">> }

SortInputs ==
    { CP,
      <<"=">> \o CP \o <<"-", "1">>,
      <<"=">> \o CP \o <<"-", "2">>,
      <<"=">> \o CP \o <<"-", "1", "-", "r", "0">>,
      CP \o <<":", "0">>,
      <<"!">> \o CP,
      <<"c", "a", "/", "p", "k", "g">>,
      <<"c", "a", "t", "/", "p", "k">>,
      CP \o <<"[", "a", "]">>,
      CP \o <<":", ":", "r", "2">>,
      \* rejected by the grammar
      <<"=">> \o CP }

(***************************************************************************)
(* The state machines.  The inputs s are strings; p holds the borrowed    *)
(* parse result of each input, a the owned value, out the results of the  *)
(* operation applied to the owned values.                                 *)
(***************************************************************************)
VARIABLES
    pc,     \* the step reached: inputs given, parsed, operation applied
    s,      \* the input strings
    p,      \* the borrowed parse result of each input
    a,      \* the owned value of each input
    out,    \* the results of the operation applied
    eapi    \* the EAPI the inputs are parsed under

vars == << pc, s, p, a, out, eapi >>

NoOut == [ op |-> "none" ]

AllOk(q) == \A k \in 1..Len(q) : q[k].ok

(***************************************************************************)
(* Atoms: two input strings are parsed with Atom::new under an EAPI       *)
(* (Atom::from_str is Atom::new under EAPI_PKGCRAFT), then one of the     *)
(* operations on the two atoms is applied.                                *)
(***************************************************************************)
Init ==
    /\ pc = "input"
    /\ eapi \in { EAPI_PKGCRAFT, EAPI_PLAIN }
    /\ s \in Tuples(AtomInputs, 2)
    /\ p = << >>
    /\ a = << >>
    /\ out = NoOut

\* Atom::new on both inputs
Parse ==
    /\ pc = "input"
    /\ p' = [ k \in 1..Len(s) |-> DepStrResult(s[k], eapi) ]
    /\ a' = [ k \in 1..Len(s) |-> AtomNew(s[k], eapi) ]
    /\ pc' = IF AllOk(a') THEN "parsed" ELSE "rejected"
    /\ UNCHANGED << s, out, eapi >>

\* HashSet::insert of the atoms of q in turn: an atom is added unless the
\* set holds one with the same hash that is equal to it.
RECURSIVE HashSetOf(_, _)
HashSetOf(q, acc) ==
    IF Len(q) = 0 THEN acc
    ELSE HashSetOf(Tail(q),
                   IF \E k \in 1..Len(acc) :
                        AtomHash(acc[k]) = AtomHash(Head(q)) /\ AtomEq(acc[k], Head(q))
                     THEN acc ELSE Append(acc, Head(q)))

\* a1.cmp(&a2), a2.cmp(&a1), a1 == a2, hash(a1), hash(a2), and the HashSet
\* collected from the two atoms (test_cmp, test_hashing)
Compare ==
    /\ pc = "parsed"
    /\ out' = [ op |-> "cmp",
                ord12 |-> AtomCmp(a[1], a[2]), ord21 |-> AtomCmp(a[2], a[1]),
                eq |-> AtomEq(a[1], a[2]),
                h1 |-> AtomHash(a[1]), h2 |-> AtomHash(a[2]),
                set |-> HashSetOf(a, << >>) ]
    /\ pc' = "compared"
    /\ UNCHANGED << s, p, a, eapi >>

\* intersects in both directions and of each atom with itself, and of the
\* two atoms with their versions replaced by the versions parsed from the
\* version text alone (test_intersects)
Intersect ==
    /\ pc = "parsed"
    /\ out' = [ op |-> "intersects",
                i12 |-> AtomIntersects(a[1], a[2]), i21 |-> AtomIntersects(a[2], a[1]),
                i11 |-> AtomIntersects(a[1], a[1]), i22 |-> AtomIntersects(a[2], a[2]),
                plain12 |-> AtomIntersects(InjectVersion(a[1], VersionText(a[1])),
                                           InjectVersion(a[2], VersionText(a[2]))) ]
    /\ pc' = "intersected"
    /\ UNCHANGED << s, p, a, eapi >>

\* to_string of both atoms (test_to_string)
Render ==
    /\ pc = "parsed"
    /\ out' = [ op |-> "to_string", r |-> [ k \in 1..Len(a) |-> AtomToString(a[k]) ] ]
    /\ pc' = "rendered"
    /\ UNCHANGED << s, p, a, eapi >>

Next == Parse \/ Compare \/ Intersect \/ Render

Spec == Init /\ [][Next]_vars

(***************************************************************************)
(* The two constructors: one input string is parsed with Atom::new under  *)
(* an EAPI or with Atom::new_cpv.                                         *)
(***************************************************************************)
CpvInputs ==
    { CP \o <<"-", "1">>,
      CP \o <<"-", "1", "-", "r", "1">>,
      CP \o <<"-", "r", "1", "-", "2", "-", "r", "3">>,
      CP \o <<"-", "1", "_", "p", "1">>,
      \* rejected by the grammar
      CP \o <<"-">>,
      CP \o <<"-", "1", "*">> }

InitNew ==
    /\ pc = "input"
    /\ eapi \in { EAPI_PKGCRAFT, EAPI_PLAIN }
    /\ s \in Tuples(AtomInputs \cup CpvInputs, 1)
    /\ p = << >>
    /\ a = << >>
    /\ out = NoOut

\* Atom::new_cpv on the input
ParseCpv ==
    /\ pc = "input"
    /\ a' = [ k \in 1..Len(s) |-> AtomNewCpv(s[k]) ]
    /\ pc' = IF AllOk(a') THEN "cpv" ELSE "cpv_rejected"
    /\ UNCHANGED << s, p, out, eapi >>

NextNew == Parse \/ ParseCpv

SpecNew == InitNew /\ [][NextNew]_vars

(***************************************************************************)
(* Feature gating: one input string is parsed with Atom::new under an     *)
(* EAPI with any set of the features the atom grammar consults, and       *)
(* rendered.                                                              *)
(***************************************************************************)
InitGate ==
    /\ pc = "input"
    /\ eapi \in SUBSET AtomFeatures
    /\ s \in Tuples(AtomInputs, 1)
    /\ p = << >>
    /\ a = << >>
    /\ out = NoOut

NextGate == Parse \/ Render

SpecGate == InitGate /\ [][NextGate]_vars

(***************************************************************************)
(* Versions: three version strings are parsed with parse::version and     *)
(* compared pairwise.                                                     *)
(***************************************************************************)
InitVersion ==
    /\ pc = "input"
    /\ eapi = EAPI_PKGCRAFT
    /\ s \in Tuples(VersionInputs, 3)
    /\ p = << >>
    /\ a = << >>
    /\ out = NoOut

\* parse::version on every input
ParseVersions ==
    /\ pc = "input"
    /\ p' = [ k \in 1..Len(s) |-> version(s[k], 1) ]
    /\ a' = [ k \in 1..Len(s) |-> ParseVersion(s[k]) ]
    /\ pc' = IF AllOk(a') THEN "parsed" ELSE "rejected"
    /\ UNCHANGED << s, out, eapi >>

\* Version::cmp of every pair
CompareVersions ==
    /\ pc = "parsed"
    /\ out' = [ op |-> "cmp",
                ord |-> [ i \in 1..Len(a) |-> [ j \in 1..Len(a) |-> VersionCmp(a[i], a[j]) ] ] ]
    /\ pc' = "compared"
    /\ UNCHANGED << s, p, a, eapi >>

NextVersion == ParseVersions \/ CompareVersions

SpecVersion == InitVersion /\ [][NextVersion]_vars

(***************************************************************************)
(* Sorting: the dep sort command parses its arguments, sorts the atoms    *)
(* and prints them.                                                       *)
(***************************************************************************)
InitSort ==
    /\ pc = "input"
    /\ eapi = EAPI_PKGCRAFT
    /\ s \in Tuples(SortInputs, MaxSortLen)
    /\ p = << >>
    /\ a = << >>
    /\ out = NoOut

\* Command::run of dep sort: an argument that does not parse ends the
\* command with its error, before anything is printed.
SortRun ==
    /\ pc = "input"
    /\ p' = [ k \in 1..Len(s) |-> dep_str(s[k], EAPI_PKGCRAFT) ]
    /\ IF AllOk(p')
         THEN /\ a' = SortAtoms([ k \in 1..Len(s) |-> AtomFromStr(s[k]) ])
              /\ out' = [ op |-> "sort",
                          printed |-> [ k \in 1..Len(s) |-> AtomToString(a'[k]) ] ]
              /\ pc' = "sorted"
         ELSE /\ a' = a
              /\ out' = [ op |-> "error" ]
              /\ pc' = "rejected"
    /\ UNCHANGED << s, eapi >>

NextSort == SortRun

SpecSort == InitSort /\ [][NextSort]_vars

(***************************************************************************)
(* DepSets: an input string is parsed by one of the six public functions  *)
(* under an EAPI; the DepSet is rendered and the rendering parsed again,  *)
(* or flattened by iterators that are advanced one next() at a time.      *)
(***************************************************************************)

\* The iterators made of one DepSet.
MaxIters == 2

\* The calls of next() on an iterator after it returned None.
MaxNones == 2

DepSetKinds ==
    { "license", "src_uri", "properties", "required_use", "restrict", "dependencies" }

\* The features the DepSet grammars consult themselves.
DepSetFeatures == { "SrcUriRenames", "RequiredUseOneOf" }

DepSetEapis == { EAPI_PLAIN \cup f : f \in SUBSET (DepSetFeatures \cup {"SlotOps"}) }

DepSetInputs ==
    { << >>,
      <<"v">>,
      <<"v","1"," ","v","2">>,
      <<"v"," ","v">>,
      <<"("," ","v"," ",")">>,
      <<"("," ",")">>,
      <<"("," ","("," ","v"," ",")"," ",")">>,
      <<"("," ","v","1"," ","("," ","v","2"," ",")"," ",")">>,
      <<"("," ","v","1"," ",")"," ","v","2">>,
      <<"|","|"," ","("," ","v"," ",")">>,
      <<"|","|"," ","("," ","v","1"," ","v","2"," ",")">>,
      <<"^","^"," ","("," ","u","1"," ","!","u","2"," ",")">>,
      <<"?","?"," ","("," ","u","1"," ","u","2"," ",")">>,
      <<"!","u">>,
      <<"u","1"," ","!","u","2">>,
      <<"u","?"," ","("," ","v"," ",")">>,
      <<"!","u","?"," ","("," ","v","1"," ","v","2"," ",")">>,
      <<"!","u","1","?"," ","("," ","|","|"," ","("," ","u","2"," ","u","3"," ",")"," ",")">>,
      <<"u","?"," ","("," ","v"," ",")"," ","!","u","?"," ","("," ","w"," ",")">>,
      <<"u","1","?"," ","("," ","a","/","b"," ","!","u","2","?"," ","("," ","c","/","d"," ",")"," ",")">>,
      <<"a","/","b">>,
      <<"a","/","b"," ","c","/","d">>,
      <<"=","a","/","b","-","1">>,
      <<"!","a","/","b">>,
      <<"a","/","b",":","0","=">>,
      <<"|","|"," ","("," ","a","/","b"," ",")">>,
      <<"u","?"," ","("," ","a","/","b"," ",")">>,
      <<"!","u","?"," ","("," ","a","/","b"," ",")">>,
      <<"h",":","/","u"," ","-",">"," ","f">>,
      <<"u","?"," ","("," ","h",":","/","u"," ","-",">"," ","f"," ",")">>,
      <<"h",":","/">>,
      \* rejected by most grammars or by all
      <<"(">>,
      <<")">>,
      <<"("," ","v",")">>,
      <<"|"," ","("," ","v"," ",")">>,
      <<"u","s","e"," ","("," ","v"," ",")">>,
      <<"v"," "," ","v">>,
      <<" ","v">>,
      <<"v"," ">> }

InitDepSet ==
    /\ pc = "input"
    /\ eapi \in DepSetEapis
    /\ s \in [ kind : DepSetKinds, text : DepSetInputs ]
    /\ p = << >>
    /\ a = << >>
    /\ out = NoOut

\* license / src_uri / properties / required_use / restrict / dependencies
DepSetParse ==
    /\ pc = "input"
    /\ p' = DepSetRule(s.text, s.kind, eapi)
    /\ a' = ParseDepSet(s.kind, s.text, eapi)
    /\ pc' = IF ~a'.ok THEN "rejected" ELSE IF IsSome(a'.val) THEN "parsed" ELSE "none"
    /\ UNCHANGED << s, out, eapi >>

\* depset.to_string(), and the rendering parsed by the same function
DepSetRender ==
    /\ pc = "parsed"
    /\ LET Again(r) == [ op |-> "to_string", r |-> r, again |-> ParseDepSet(s.kind, r, eapi) ]
       IN  out' = Again(DepSetToString(s.kind, a.val[1]))
    /\ pc' = "rendered"
    /\ UNCHANGED << s, p, a, eapi >>

\* A flatten() that hands out what the latest iterator has left.
DepSetFlattenShared ==
    /\ pc \in { "parsed", "flattening" }
    /\ LET Its == IF pc = "parsed" THEN << >> ELSE out.its
           From == IF pc = "parsed" THEN flatten(a.val[1]) ELSE out.its[Len(out.its)].it
       IN  /\ Len(Its) < MaxIters
           /\ out' = [ op |-> "flatten",
                       its |-> Append(Its, [ it |-> From, got |-> << >>, nones |-> 0 ]) ]
    /\ pc' = "flattening"
    /\ UNCHANGED << s, p, a, eapi >>

\* depset.flatten(): one more iterator over the DepSet
DepSetFlatten ==
    /\ pc \in { "parsed", "flattening" }
    /\ LET Its == IF pc = "parsed" THEN << >> ELSE out.its
       IN  /\ Len(Its) < MaxIters
           /\ out' = [ op |-> "flatten",
                       its |-> Append(Its, [ it |-> flatten(a.val[1]), got |-> << >>, nones |-> 0 ]) ]
    /\ pc' = "flattening"
    /\ UNCHANGED << s, p, a, eapi >>

\* One iterator after a call of next() that returned r.
Advanced(it, r) ==
    [ it    |-> [ deps |-> r.deps ],
      got   |-> IF IsSome(r.item) THEN Append(it.got, r.item[1]) ELSE it.got,
      nones |-> IF IsSome(r.item) THEN it.nones ELSE it.nones + 1 ]

\* next() on the k-th iterator
DepSetNext(k) ==
    /\ pc = "flattening"
    /\ k \in 1..Len(out.its)
    /\ out.its[k].nones < MaxNones
    /\ out' = [ out EXCEPT !.its[k] = Advanced(@, DepSetFlattenNext(@.it.deps)) ]
    /\ UNCHANGED << pc, s, p, a, eapi >>

NextDepSet ==
    \/ DepSetParse
    \/ DepSetRender
    \/ DepSetFlatten
    \/ \E k \in 1..MaxIters : DepSetNext(k)

SpecDepSet == InitDepSet /\ [][NextDepSet]_vars

\* The callers of flatten() drive each iterator until it returns None
\* (Iterator::any, collect): an iterator that can be advanced is advanced.
FairSpecDepSet ==
    SpecDepSet /\ \A k \in 1..MaxIters : WF_vars(DepSetNext(k))

(***************************************************************************)
(* The memoization of parse::version, parse::cpv and parse::dep           *)
(* (#[cached], parse.rs 360-398 and 427-435).  Each function has a static *)
(* SizedCache behind a mutex: a call locks it and looks its key up; on a  *)
(* miss it releases the lock, runs the function body, locks again and     *)
(* stores the result, Ok or Err alike.  pc is the position of each        *)
(* thread, s its call, a the three caches (most recently used entry       *)
(* first), out the latest return, eapi the EAPIs the callers use; no      *)
(* borrowed parse result outlives a call, so p stays empty.               *)
(***************************************************************************)

\* The capacity of each cache (1000 in the code).
CacheSize == 2

CacheThreads == { "t1", "t2" }

NoCall == [ fn |-> "none" ]

\* convert = { s.to_string() } of version
version_convert(text) == << text >>

\* convert = { s.to_string() } of cpv
cpv_convert(text) == << text >>

\* A key of the dep cache that leaves the EAPI out.
dep_convert_string(text, e) == << text >>

\* convert = { (s.to_string(), eapi) } of dep
dep_convert(text, e) == << text, e >>

\* The key of a call in the cache of its function.
CacheKey(c) ==
    CASE c.fn = "version" -> version_convert(c.args[1])
      [] c.fn = "cpv"     -> cpv_convert(c.args[1])
      [] c.fn = "dep"     -> dep_convert(c.args[1], c.args[2])

\* The body of parse::dep: dep_str(s, eapi)?.into_owned()
ParseDep(text, e) ==
    LET Owned(d) == IF d.ok THEN IntoOwned(d, text) ELSE d
    IN  Owned(DepStrResult(text, e))

\* The body of the function called.
CacheBody(c) ==
    CASE c.fn = "version" -> ParseVersion(c.args[1])
      [] c.fn = "cpv"     -> AtomNewCpv(c.args[1])
      [] c.fn = "dep"     -> ParseDep(c.args[1], c.args[2])

\* SizedCache::cache_get: the value of the key, which becomes the most
\* recently used entry
cache_get(q, key) ==
    LET Other(e) == e.key # key
        Found(k) == [ hit |-> TRUE, val |-> q[k].val,
                      cache |-> << q[k] >> \o SelectSeq(q, Other) ]
    IN  IF \E k \in 1..Len(q) : q[k].key = key
          THEN Found(CHOOSE k \in 1..Len(q) : q[k].key = key)
          ELSE [ hit |-> FALSE, cache |-> q ]

\* SizedCache::cache_set: the entry becomes the most recently used one; a
\* new key in a full cache evicts the least recently used entry
cache_set(q, key, val) ==
    LET Other(e) == e.key # key
        Kept(rest) == IF Len(rest) >= CacheSize THEN SubSeq(rest, 1, CacheSize - 1) ELSE rest
    IN  << [ key |-> key, val |-> val ] >> \o Kept(SelectSeq(q, Other))

\* Whether cache_set of the key evicts an entry.
Evicts(q, key) == Len(q) >= CacheSize /\ \A k \in 1..Len(q) : q[k].key # key

\* EAPIs of the callers: all features, and one without slot operators and
\* repository ids.
CacheEapis == { EAPI_PKGCRAFT, EAPI_PLAIN }

\* The calls made: a valid and an invalid string of version and of cpv, a
\* dep string with a slot operator under both EAPIs and a plain one under
\* the second.
CacheCalls(eapis) ==
    { [ fn |-> "version", args |-> << text >> ] : text \in { <<"1", "-", "r", "1">>, <<"a">> } }
    \cup { [ fn |-> "cpv", args |-> << text >> ] :
             text \in { CP \o <<"-", "1">>, CP } }
    \cup { [ fn |-> "dep", args |-> << CP \o <<":", "0", "=">>, e >> ] : e \in eapis }
    \cup { [ fn |-> "dep", args |-> << CP, e >> ] : e \in eapis \cap { EAPI_PLAIN } }

InitCache ==
    /\ pc = [ t \in CacheThreads |-> "idle" ]
    /\ s = [ t \in CacheThreads |-> NoCall ]
    /\ p = << >>
    /\ a = [ version |-> << >>, cpv |-> << >>, dep |-> << >> ]
    /\ out = [ op |-> "none", evicted |-> {} ]
    /\ eapi = CacheEapis

\* A thread calls version, cpv or dep: the lookup under the lock, which
\* returns the cached result on a hit.
CacheCall(t) ==
    /\ pc[t] = "idle"
    /\ \E c \in CacheCalls(eapi) :
         LET Looked(g) ==
                 IF g.hit
                   THEN /\ a' = [ a EXCEPT ![c.fn] = g.cache ]
                        /\ out' = [ op |-> "return", call |-> c, result |-> g.val,
                                    hit |-> TRUE, evicted |-> out.evicted ]
                        /\ UNCHANGED << pc, s >>
                   ELSE /\ s' = [ s EXCEPT ![t] = c ]
                        /\ pc' = [ pc EXCEPT ![t] = "miss" ]
                        /\ UNCHANGED << a, out >>
         IN  Looked(cache_get(a[c.fn], CacheKey(c)))
    /\ UNCHANGED << p, eapi >>

\* After a miss: the function body outside the lock, then the result is
\* stored under the lock and returned.
CacheSet(t) ==
    /\ pc[t] = "miss"
    /\ LET Stored(c, key, r) ==
               /\ a' = [ a EXCEPT ![c.fn] = cache_set(a[c.fn], key, r) ]
               /\ out' = [ op |-> "return", call |-> c, result |-> r, hit |-> FALSE,
                           evicted |-> IF Evicts(a[c.fn], key)
                                         THEN out.evicted \cup { c.fn } ELSE out.evicted ]
       IN  Stored(s[t], CacheKey(s[t]), CacheBody(s[t]))
    /\ pc' = [ pc EXCEPT ![t] = "idle" ]
    /\ s' = [ s EXCEPT ![t] = NoCall ]
    /\ UNCHANGED << p, eapi >>

NextCache == \E t \in CacheThreads : CacheCall(t) \/ CacheSet(t)

SpecCache == InitCache /\ [][NextCache]_vars

(***************************************************************************)
(* Restrictions: a restriction is made from a leaf or an empty            *)
(* combination, combined with leaves by &, | and ^ and negated, then      *)
(* matched against an object.  Next to the restriction r, a holds the     *)
(* restriction made by the enum constructor from the operands of the last *)
(* operator, which leaves a combination among them as one child.          *)
(***************************************************************************)
InitRestrict ==
    /\ pc = "built"
    /\ s \in RestrictObjects
    /\ p = 0
    /\ \E x \in RestrictLeaves \cup { and(<< >>), or(<< >>), xor(<< >>) } :
          a = [ r |-> x, nested |-> x ]
    /\ out = NoOut
    /\ eapi = EAPI_PKGCRAFT

Operands(l, left) == IF left THEN << l, a.r >> ELSE << a.r, l >>

\* self & rhs
BitAnd ==
    /\ pc = "built" /\ p < MaxRestrictOps
    /\ \E l \in RestrictLeaves, left \in BOOLEAN :
          a' = [ r |-> bitand(Operands(l, left)[1], Operands(l, left)[2]),
                 nested |-> Nested("And", Operands(l, left)) ]
    /\ p' = p + 1
    /\ UNCHANGED << pc, s, out, eapi >>

\* self | rhs
BitOr ==
    /\ pc = "built" /\ p < MaxRestrictOps
    /\ \E l \in RestrictLeaves, left \in BOOLEAN :
          a' = [ r |-> bitor(Operands(l, left)[1], Operands(l, left)[2]),
                 nested |-> Nested("Or", Operands(l, left)) ]
    /\ p' = p + 1
    /\ UNCHANGED << pc, s, out, eapi >>

\* self ^ rhs
BitXor ==
    /\ pc = "built" /\ p < MaxRestrictOps
    /\ \E l \in RestrictLeaves, left \in BOOLEAN :
          a' = [ r |-> bitxor(Operands(l, left)[1], Operands(l, left)[2]),
                 nested |-> Nested("Xor", Operands(l, left)) ]
    /\ p' = p + 1
    /\ UNCHANGED << pc, s, out, eapi >>

\* !self
RestrictNot ==
    /\ pc = "built" /\ p < MaxRestrictOps
    /\ a' = [ r |-> not(a.r), nested |-> not(a.r) ]
    /\ p' = p + 1
    /\ UNCHANGED << pc, s, out, eapi >>

\* r.matches(obj)
RestrictMatches ==
    /\ pc = "built"
    /\ out' = [ op |-> "matches", m |-> restrict_match(a.r, s),
                nested |-> restrict_match(a.nested, s) ]
    /\ pc' = "matched"
    /\ UNCHANGED << s, p, a, eapi >>

NextRestrict == BitAnd \/ BitOr \/ BitXor \/ RestrictNot \/ RestrictMatches

SpecRestrict == InitRestrict /\ [][NextRestrict]_vars

(***************************************************************************)
(* Pool: crates/scallop/src/pool.rs.  eapi holds the size the pool was    *)
(* made with, p the semaphore, the holders of the sending end of the      *)
(* channel (0 is the parent, a child holds the copy it got by fork until  *)
(* it exits), the errors in the channel and the receiving thread, a the   *)
(* forked children, s the calls of spawn made, pc the step of the parent. *)
(***************************************************************************)
MaxPoolSize == 2

MaxSpawns == 3

\* Pool::new(size)
InitPool ==
    /\ pc = "idle"
    /\ eapi \in 1..MaxPoolSize
    /\ p = [ sem |-> eapi, tx |-> { 0 }, chan |-> 0, errors |-> 0, thread |-> "running" ]
    /\ a = << >>
    /\ s = [ calls |-> 0, failed |-> 0 ]
    /\ out = NoOut

\* The children that hold a slot of the pool.
Running == { c \in 1..Len(a) : a[c].st \in { "func", "send", "release" } }

\* spawn: self.sem.acquire(), which waits while the semaphore is 0
SpawnAcquire ==
    /\ pc = "idle" /\ s.calls < MaxSpawns
    /\ p.sem > 0
    /\ p' = [ p EXCEPT !.sem = p.sem - 1 ]
    /\ s' = [ s EXCEPT !.calls = s.calls + 1 ]
    /\ pc' = "fork"
    /\ UNCHANGED << a, out, eapi >>

\* spawn: fork() gives Parent; the child starts with a copy of the sender
SpawnFork ==
    /\ pc = "fork"
    /\ a' = Append(a, [ st |-> "func", res |-> "none" ])
    /\ p' = [ p EXCEPT !.tx = p.tx \cup { Len(a) + 1 } ]
    /\ out' = [ op |-> "spawn", res |-> "Ok" ]
    /\ pc' = "idle"
    /\ UNCHANGED << s, eapi >>

\* spawn: fork() fails and spawn returns the error
SpawnForkFails ==
    /\ pc = "fork"
    /\ s' = [ s EXCEPT !.failed = s.failed + 1 ]
    /\ out' = [ op |-> "spawn", res |-> "Err" ]
    /\ pc' = "idle"
    /\ UNCHANGED << p, a, eapi >>

\* child: func() returns Ok or Err
ChildFunc(c) ==
    /\ c \in 1..Len(a) /\ a[c].st = "func"
    /\ \E r \in { "Ok", "Err" } :
          a' = [ a EXCEPT ![c] = [ st |-> IF r = "Err" THEN "send" ELSE "release",
                                   res |-> r ] ]
    /\ UNCHANGED << pc, s, p, out, eapi >>

\* child: self.tx.send(e)
ChildSend(c) ==
    /\ c \in 1..Len(a) /\ a[c].st = "send"
    /\ p' = [ p EXCEPT !.chan = p.chan + 1 ]
    /\ a' = [ a EXCEPT ![c].st = "release" ]
    /\ UNCHANGED << pc, s, out, eapi >>

\* A child that gives its slot back only when its function returned Ok.
ChildReleaseOk(c) ==
    /\ c \in 1..Len(a) /\ a[c].st = "release"
    /\ p' = [ p EXCEPT !.sem = IF a[c].res = "Ok" THEN p.sem + 1 ELSE p.sem ]
    /\ a' = [ a EXCEPT ![c].st = "exit" ]
    /\ UNCHANGED << pc, s, out, eapi >>

\* child: self.sem.release()
ChildRelease(c) ==
    /\ c \in 1..Len(a) /\ a[c].st = "release"
    /\ p' = [ p EXCEPT !.sem = p.sem + 1 ]
    /\ a' = [ a EXCEPT ![c].st = "exit" ]
    /\ UNCHANGED << pc, s, out, eapi >>

\* child: libc::_exit(0), which closes the child's copy of the sender
ChildExit(c) ==
    /\ c \in 1..Len(a) /\ a[c].st = "exit"
    /\ p' = [ p EXCEPT !.tx = p.tx \ { c } ]
    /\ a' = [ a EXCEPT ![c].st = "exited" ]
    /\ UNCHANGED << pc, s, out, eapi >>

\* receiving thread: rx.recv() gives Ok(e)
ThreadRecv ==
    /\ p.thread = "running" /\ p.chan > 0
    /\ p' = [ p EXCEPT !.chan = p.chan - 1, !.errors = p.errors + 1 ]
    /\ UNCHANGED << pc, s, a, out, eapi >>

\* A receiving thread that ends as soon as the pool's own sender is gone.
ThreadDisconnectedOwn ==
    /\ p.thread = "running" /\ p.chan = 0 /\ 0 \notin p.tx
    /\ p' = [ p EXCEPT !.thread = "returned" ]
    /\ UNCHANGED << pc, s, a, out, eapi >>

\* receiving thread: rx.recv() gives Err(IpcError::Disconnected), which it
\* does when the channel is empty and no process holds a sender
ThreadDisconnected ==
    /\ p.thread = "running" /\ p.chan = 0 /\ p.tx = { }
    /\ p' = [ p EXCEPT !.thread = "returned" ]
    /\ UNCHANGED << pc, s, a, out, eapi >>

\* join: drop(self.tx)
JoinDrop ==
    /\ pc = "idle"
    /\ p' = [ p EXCEPT !.tx = p.tx \ { 0 } ]
    /\ pc' = "join"
    /\ UNCHANGED << s, a, out, eapi >>

\* join: self.thread.join()
JoinReturn ==
    /\ pc = "join" /\ p.thread = "returned"
    /\ out' = [ op |-> "join", res |-> "Ok", count |-> p.errors ]
    /\ pc' = "joined"
    /\ UNCHANGED << s, p, a, eapi >>

NextPool ==
    \/ SpawnAcquire \/ SpawnFork \/ SpawnForkFails
    \/ \E c \in 1..MaxSpawns : ChildFunc(c) \/ ChildSend(c) \/ ChildRelease(c) \/ ChildExit(c)
    \/ ThreadRecv \/ ThreadDisconnected
    \/ JoinDrop \/ JoinReturn

SpecPool == InitPool /\ [][NextPool]_vars

(***************************************************************************)
(* inherit: src/pkgsh/builtins/inherit.rs, src/scallop/builtins/inherit.rs.*)
(* s holds the inherit arguments of the ebuild and of every eclass file,  *)
(* a the calls of inherit under way, innermost last: the arguments a call *)
(* has still to go through and the eclass whose file it is sourcing; p    *)
(* holds BUILD_DATA's inherit and inherited and the files sourced so far. *)
(***************************************************************************)
Eclasses == { "a", "b", "c" }

\* The most arguments of the ebuild's inherit call.
MaxArgs == 2

\* The most calls of inherit nested in each other that are followed.
MaxNesting == 4

\* The inherit line of an eclass file: none, or one eclass.
EclassLines == { << >> } \cup { << e >> : e \in Eclasses }

InitInherit ==
    /\ pc = "ebuild"
    /\ \E g \in [ Eclasses -> EclassLines ],
          args \in UNION { Tuples(Eclasses, n) : n \in 1..MaxArgs } :
          s = [ ebuild |-> args, eclass |-> g ]
    /\ a = << >>
    /\ p = [ inherit |-> << >>, inherited |-> << >>, sourced |-> << >> ]
    /\ out = NoOut
    /\ eapi = EAPI_PKGCRAFT

\* IndexSet::insert
IndexSetInsert(q, e) == IF e \in SeqElems(q) THEN q ELSE Append(q, e)

\* The innermost call of inherit under way.
Top == a[Len(a)]

\* run, called from the ebuild: the direct inherits are tracked
InheritEbuild ==
    /\ pc = "ebuild"
    /\ a' = << [ todo |-> s.ebuild, cur |-> None ] >>
    /\ p' = [ p EXCEPT !.inherit = p.inherit \o s.ebuild ]
    /\ pc' = "inherit"
    /\ UNCHANGED << s, out, eapi >>

\* for eclass in eclasses: inherited.contains(&eclass) => continue
InheritSkip ==
    /\ pc = "inherit" /\ Top.cur = None /\ Top.todo # << >>
    /\ Head(Top.todo) \in SeqElems(p.inherited)
    /\ a' = [ a EXCEPT ![Len(a)].todo = Tail(Top.todo) ]
    /\ UNCHANGED << pc, s, p, out, eapi >>

\* for eclass in eclasses: source::file(..) of an eclass not in inherited;
\* the inherit line of the file calls run again
InheritSource ==
    /\ pc = "inherit" /\ Top.cur = None /\ Top.todo # << >>
    /\ Head(Top.todo) \notin SeqElems(p.inherited)
    /\ Len(a) < MaxNesting
    /\ LET Started(e, q) ==
               IF s.eclass[e] = << >> THEN q
               ELSE Append(q, [ todo |-> s.eclass[e], cur |-> None ])
       IN  a' = Started(Head(Top.todo),
                        [ a EXCEPT ![Len(a)] = [ todo |-> Tail(Top.todo),
                                                 cur |-> Some(Head(Top.todo)) ] ])
    /\ p' = [ p EXCEPT !.sourced = Append(p.sourced, Head(Top.todo)) ]
    /\ UNCHANGED << pc, s, out, eapi >>

\* after source::file(..): d.inherited.insert(eclass)
InheritInsert ==
    /\ pc = "inherit" /\ IsSome(Top.cur)
    /\ p' = [ p EXCEPT !.inherited = IndexSetInsert(p.inherited, Top.cur[1]) ]
    /\ a' = [ a EXCEPT ![Len(a)].cur = None ]
    /\ UNCHANGED << pc, s, out, eapi >>

\* the loop is over: Ok(ExecStatus::Success)
InheritReturn ==
    /\ pc = "inherit" /\ Top.cur = None /\ Top.todo = << >>
    /\ a' = SubSeq(a, 1, Len(a) - 1)
    /\ pc' = IF Len(a) = 1 THEN "done" ELSE "inherit"
    /\ out' = [ op |-> "inherit", status |-> "Success" ]
    /\ UNCHANGED << s, p, eapi >>

NextInherit == InheritEbuild \/ InheritSkip \/ InheritSource \/ InheritInsert \/ InheritReturn

SpecInherit == InitInherit /\ [][NextInherit]_vars

(***************************************************************************)
(* Properties of atoms (specification Spec).                              *)
(***************************************************************************)

\* C1: two parsed atoms that are equal have the same hash.  Equality is
\* agreement of the two keys (category, package, version, blocker, slot,
\* subslot, slot_op, use_deps, repo) at every position, so two atoms that
\* differ only in versions that compare equal (an absent revision and an
\* explicit -r0) are equal, hash alike and make one entry of a hash set.
HashEqConsistency ==
    pc = "compared" =>
        /\ out.eq <=> \A k \in 1..9 : CmpKeyAt(AtomKey(a[1]), AtomKey(a[2]), k) = Equal
        /\ out.eq => out.h1 = out.h2
        /\ Len(out.set) = IF out.eq THEN 1 ELSE 2
        /\ ( /\ IsSome(a[1].version) /\ IsSome(a[2].version)
             /\ VersionCmp(a[1].version[1], a[2].version[1]) = Equal
             /\ [ a[1] EXCEPT !.version = None, !.full = << >> ]
                  = [ a[2] EXCEPT !.version = None, !.full = << >> ] )
           => out.eq /\ out.h1 = out.h2 /\ Len(out.set) = 1

\* Two equal atoms written differently: one revision absent, one explicit.
HashEqWitness ==
    /\ pc = "compared"
    /\ out.eq
    /\ out.h1 = out.h2
    /\ IsSome(a[1].version) /\ IsSome(a[2].version)
    /\ a[1].version[1].revision.s = None
    /\ a[2].version[1].revision.s = Some(<<"0">>)

\* C2: Atom::intersects is symmetric, whatever fields the two atoms carry.
IntersectsSymmetric ==
    pc = "intersected" => out.i12 = out.i21

\* Two atoms of one package with different USE dependencies that do not
\* intersect, in either direction.
IntersectsSymmetricWitness ==
    /\ pc = "intersected"
    /\ ~out.i12 /\ ~out.i21
    /\ a[1].category = a[2].category /\ a[1].package = a[2].package
    /\ IsSome(a[1].use_deps) /\ IsSome(a[2].use_deps)
    /\ a[1].use_deps # a[2].use_deps
    /\ IsSome(a[1].version) /\ a[2].version = None

\* C3: every parsed atom intersects itself, also an atom whose own USE
\* dependencies hold both a flag and its negation, and under every version
\* operator.
SelfIntersects ==
    pc = "intersected" => out.i11 /\ out.i22

\* An atom with [a,-a] and an atom with a version operator, each
\* intersecting itself.
SelfIntersectsWitness ==
    /\ pc = "intersected"
    /\ out.i11 /\ out.i22
    /\ IsSome(a[1].use_deps)
    /\ { <<"a">>, <<"-", "a">> } \subseteq SeqElems(a[1].use_deps[1])
    /\ IsSome(a[2].version)
    /\ a[2].version[1].op = Some("Approximate")

\* C4: rendering a parsed atom returns the parsed string, under every EAPI
\* that accepts it; the string is the composition, in the fixed order
\* blocker, operator + category/package-version (+ "*"), slot block,
\* bracketed USE dependencies, "::repo", of the parts that were parsed, a
\* revision being rendered as written.
RoundTrip ==
    pc = "rendered" =>
        \A k \in 1..Len(s) :
            /\ out.r[k] = s[k]
            /\ out.r[k] = ComposeAtom(a[k].blocker, a[k].version, a[k].category,
                                      a[k].package, a[k].slot, a[k].subslot,
                                      a[k].slot_op, p[k].use_deps, a[k].repo)

\* A revision with a leading zero, and USE dependencies written out of
\* order, rendered under the EAPI without slot operators.
RoundTripWitness ==
    /\ pc = "rendered"
    /\ eapi = EAPI_PLAIN
    /\ IsSome(a[1].version)
    /\ a[1].version[1].revision.s = Some(<<"0", "1">>)
    /\ IsSome(a[2].use_deps)
    /\ a[2].use_deps # p[2].use_deps
    /\ out.r = s

\* C5 as stated: the rendered form shows the USE dependencies in sorted
\* order (cat/pkg[b,a] as cat/pkg[a,b]) and keeps repeated ones
\* (cat/pkg[u,u] as cat/pkg[u,u]).
RenderedUseDepsSorted ==
    pc = "rendered" =>
        \A k \in 1..Len(s) :
            IsSome(p[k].use_deps) =>
                out.r[k] = ComposeAtom(a[k].blocker, a[k].version, a[k].category,
                                       a[k].package, a[k].slot, a[k].subslot, a[k].slot_op,
                                       Some(UseDepsSorted(p[k].use_deps[1])),
                                       a[k].repo)

\* C5 as amended: the rendered form shows the USE dependencies as they were
\* written (cat/pkg[b,a] as cat/pkg[b,a], cat/pkg[u,u] as cat/pkg[u,u]);
\* the sorted order, without repetitions, is that of the USE-dependency
\* set the atom stores ([a,b] and [u]).
RenderedUseDepsAsWritten ==
    pc = "rendered" =>
        \A k \in 1..Len(s) :
            IsSome(p[k].use_deps) =>
                /\ out.r[k] = ComposeAtom(a[k].blocker, a[k].version, a[k].category,
                                          a[k].package, a[k].slot, a[k].subslot,
                                          a[k].slot_op, p[k].use_deps, a[k].repo)
                /\ IsSome(a[k].use_deps)
                /\ SeqElems(a[k].use_deps[1]) = SeqElems(p[k].use_deps[1])
                /\ \A i, j \in 1..Len(a[k].use_deps[1]) :
                      i < j =>
                        /\ a[k].use_deps[1][i] # a[k].use_deps[1][j]
                        /\ UseDepSortCmp(a[k].use_deps[1][i], a[k].use_deps[1][j]) # Greater
                /\ s[k] = CP \o <<"[", "b", ",", "a", "]">>
                     => /\ out.r[k] = CP \o <<"[", "b", ",", "a", "]">>
                        /\ a[k].use_deps = Some(<< <<"a">>, <<"b">> >>)
                /\ s[k] = CP \o <<"[", "u", ",", "u", "]">>
                     => /\ out.r[k] = CP \o <<"[", "u", ",", "u", "]">>
                        /\ a[k].use_deps = Some(<< <<"u">> >>)

\* cat/pkg[b,a] and cat/pkg[u,u], rendered.
RenderedUseDepsWitness ==
    /\ pc = "rendered"
    /\ s = << CP \o <<"[", "b", ",", "a", "]">>, CP \o <<"[", "u", ",", "u", "]">> >>
    /\ out.r = s
    /\ a[1].use_deps # p[1].use_deps
    /\ a[2].use_deps # p[2].use_deps

(***************************************************************************)
(* Properties of versions (specification SpecVersion).                    *)
(***************************************************************************)

\* C6: version comparison is a total order.  Every pair of valid versions
\* compares Less, Equal or Greater, the comparison of (b, a) is the reverse
\* of that of (a, b), and the relation is transitive, also across
\* components with and without leading zero and across versions with
\* different numbers of components or suffixes.
VersionTotalOrder ==
    pc = "compared" =>
        \A i, j, k \in 1..Len(a) :
            /\ out.ord[i][j] \in { Less, Equal, Greater }
            /\ out.ord[i][i] = Equal
            /\ out.ord[j][i] = Reverse(out.ord[i][j])
            /\ (out.ord[i][j] # Greater /\ out.ord[j][k] # Greater)
                 => out.ord[i][k] # Greater
            /\ (out.ord[i][j] = Less /\ out.ord[j][k] # Greater) => out.ord[i][k] = Less
            /\ (out.ord[i][j] # Greater /\ out.ord[j][k] = Less) => out.ord[i][k] = Less
            /\ (out.ord[i][j] = Equal /\ out.ord[j][k] = Equal) => out.ord[i][k] = Equal

\* A chain of three versions: a component with a leading zero below one
\* without, below a version with fewer components.
VersionTotalOrderWitness ==
    /\ pc = "compared"
    /\ Len(a[1].numbers) = 2 /\ Len(a[2].numbers) = 2 /\ Len(a[3].numbers) = 1
    /\ LeadingZero(a[1].numbers[2].s)
    /\ ~LeadingZero(a[2].numbers[2].s)
    /\ out.ord[1][2] = Less /\ out.ord[2][3] = Less /\ out.ord[1][3] = Less

\* C7: two versions with the same numbers and letter order by the first
\* position where their suffix lists differ, by suffix kind with
\* alpha < beta < pre < rc < (no suffix) < p and then by the number of the
\* suffix (absent = 0), and by revision (absent = 0) when no position
\* differs; a version whose numbers are a proper prefix of another's is
\* the lesser.  Hence 1_alpha < 1_beta < 1_pre < 1_rc < 1 < 1_p,
\* 1_p1 < 1_p2, 1.0 > 1, 1-r1 < 1-r2 and 0 == 0-r0.
SuffixOrdering ==
    pc = "compared" =>
        \A i, j \in 1..Len(a) :
            LET kinds == << "Alpha", "Beta", "Pre", "Rc", "NoSuffix", "P" >>
                Rank(kind) == CHOOSE r \in 1..Len(kinds) : kinds[r] = kind
                Kind(v, k) == IF k <= Len(v.suffixes) THEN v.suffixes[k].kind ELSE "NoSuffix"
                Num(v, k) == IF k <= Len(v.suffixes) /\ IsSome(v.suffixes[k].num)
                               THEN v.suffixes[k].num[1] ELSE 0
                Differ(k) == Kind(a[i], k) # Kind(a[j], k) \/ Num(a[i], k) # Num(a[j], k)
                By(x, y) == IF x < y THEN Less ELSE IF x > y THEN Greater ELSE Equal
                At1(d) == IF d = {} THEN By(a[i].revision.n, a[j].revision.n)
                          ELSE LET k == CHOOSE k \in d : \A m \in d : k <= m
                               IN  IF Kind(a[i], k) # Kind(a[j], k)
                                     THEN By(Rank(Kind(a[i], k)), Rank(Kind(a[j], k)))
                                     ELSE By(Num(a[i], k), Num(a[j], k))
            IN  /\ (a[i].numbers = a[j].numbers /\ a[i].letter = a[j].letter)
                      => out.ord[i][j]
                           = At1({ k \in 1..(Len(a[i].suffixes) + Len(a[j].suffixes)) : Differ(k) })
                /\ ( /\ Len(a[i].numbers) < Len(a[j].numbers)
                     /\ SubSeq(a[j].numbers, 1, Len(a[i].numbers)) = a[i].numbers )
                      => out.ord[i][j] = Less
                /\ \A e \in {
                        << <<"1","_","a","l","p","h","a">>, <<"1","_","b","e","t","a">>, "Less" >>,
                        << <<"1","_","b","e","t","a">>, <<"1","_","p","r","e">>, "Less" >>,
                        << <<"1","_","p","r","e">>, <<"1","_","r","c">>, "Less" >>,
                        << <<"1","_","r","c">>, <<"1">>, "Less" >>,
                        << <<"1">>, <<"1","_","p">>, "Less" >>,
                        << <<"1","_","p","1">>, <<"1","_","p","2">>, "Less" >>,
                        << <<"1",".","0">>, <<"1">>, "Greater" >>,
                        << <<"1","-","r","1">>, <<"1","-","r","2">>, "Less" >>,
                        << <<"0">>, <<"0","-","r","0">>, "Equal" >>,
                        << <<"1",".","0",".","0">>, <<"1",".","0",".","1">>, "Less" >>,
                        << <<"1","_","p">>, <<"1","_","p","0">>, "Equal" >>,
                        << <<"1","_","a","l","p","h","a">>, <<"1","_","a","l","p","h","a","_","p">>, "Less" >>,
                        << <<"1","_","p","_","a","l","p","h","a">>, <<"1","_","p">>, "Less" >> } :
                      (s[i] = e[1] /\ s[j] = e[2]) => out.ord[i][j] = e[3]

\* 1_rc < 1 < 1_p, compared.
SuffixOrderingWitness ==
    /\ pc = "compared"
    /\ s = << <<"1", "_", "r", "c">>, <<"1">>, <<"1", "_", "p">> >>
    /\ out.ord[1][2] = Less /\ out.ord[2][3] = Less

(***************************************************************************)
(* Properties of sorting (specification SpecSort).                        *)
(***************************************************************************)

\* C8: atoms order by the first position of (category, package, version,
\* blocker, slot, subslot, slot_op, use_deps, repo) where they differ, an
\* absent value before a present one.  So the sorted atoms are in that
\* order, an atom without version stands before every versioned atom of
\* its category/package, and [=cat/pkg-2, =cat/pkg-1, cat/pkg] is printed
\* as [cat/pkg, =cat/pkg-1, =cat/pkg-2].
SortedByKey ==
    pc = "sorted" =>
        LET Opt(u, v, c(_, _)) ==
                IF u = None THEN (IF v = None THEN Equal ELSE Less)
                ELSE IF v = None THEN Greater
                ELSE c(u[1], v[1])
            Pos(x, y, k) ==
                CASE k = 1 -> CmpStr(x.category, y.category)
                  [] k = 2 -> CmpStr(x.package, y.package)
                  [] k = 3 -> Opt(x.version, y.version, VersionCmp)
                  [] k = 4 -> Opt(x.blocker, y.blocker, CmpBlocker)
                  [] k = 5 -> Opt(x.slot, y.slot, CmpStr)
                  [] k = 6 -> Opt(x.subslot, y.subslot, CmpStr)
                  [] k = 7 -> Opt(x.slot_op, y.slot_op, CmpSlotOperator)
                  [] k = 8 -> Opt(x.use_deps, y.use_deps, OrderedSetCmp)
                  [] k = 9 -> Opt(x.repo, y.repo, CmpStr)
            InOrder(x, y) ==
                \/ \A k \in 1..9 : Pos(x, y, k) = Equal
                \/ \E k \in 1..9 : /\ Pos(x, y, k) = Less
                                   /\ \A m \in 1..(k - 1) : Pos(x, y, m) = Equal
            Count(q, x) == Cardinality({ k \in 1..Len(q) : q[k] = x })
        IN  /\ Len(out.printed) = Len(s)
            /\ \A k \in 1..Len(s) : Count(out.printed, s[k]) = Count(s, s[k])
            /\ \A i, j \in 1..Len(a) : i < j => InOrder(a[i], a[j])
            /\ \A i, j \in 1..Len(a) :
                  ( /\ a[i].category = a[j].category /\ a[i].package = a[j].package
                    /\ a[i].version = None /\ a[j].version # None ) => i < j
            /\ s = << <<"=">> \o CP \o <<"-", "2">>, <<"=">> \o CP \o <<"-", "1">>, CP >>
                 => out.printed
                      = << CP, <<"=">> \o CP \o <<"-", "1">>, <<"=">> \o CP \o <<"-", "2">> >>

\* The list =cat/pkg-2, =cat/pkg-1, cat/pkg, sorted and printed.
SortedByKeyWitness ==
    /\ pc = "sorted"
    /\ s = << <<"=">> \o CP \o <<"-", "2">>, <<"=">> \o CP \o <<"-", "1">>, CP >>
    /\ out.printed = << CP, <<"=">> \o CP \o <<"-", "1">>, <<"=">> \o CP \o <<"-", "2">> >>

(***************************************************************************)
(* Properties of Atom::intersects (specification Spec).                   *)
(***************************************************************************)

\* C9: two atoms do not intersect when their categories or packages
\* differ, or when both carry a slot (subslot, repo) and the two differ; a
\* slot, subslot, repo or version that only one of them carries does not
\* prevent intersection (cat/pkg intersects cat/pkg:1 and cat/pkg:2, which
\* do not intersect each other), an atom without version intersects every
\* version of the package, and blockers and slot operators do not change
\* the result.
IntersectsByField ==
    pc = "intersected" =>
        LET Differ(x, y) == IsSome(x) /\ IsSome(y) /\ x # y
            Both(x, y) == IsSome(x) /\ IsSome(y)
            Bare(x) == [ x EXCEPT !.blocker = None, !.slot_op = None ]
            OneSided(x, y) ==
                [ x EXCEPT !.slot    = IF IsSome(y.slot) THEN @ ELSE None,
                           !.subslot = IF IsSome(y.subslot) THEN @ ELSE None,
                           !.repo    = IF IsSome(y.repo) THEN @ ELSE None,
                           !.version = IF IsSome(y.version) THEN @ ELSE None ]
        IN  /\ (a[1].category # a[2].category \/ a[1].package # a[2].package) => ~out.i12
            /\ Differ(a[1].slot, a[2].slot) => ~out.i12
            /\ Differ(a[1].subslot, a[2].subslot) => ~out.i12
            /\ Differ(a[1].repo, a[2].repo) => ~out.i12
            /\ out.i12 = AtomIntersects(OneSided(a[1], a[2]), OneSided(a[2], a[1]))
            /\ ( /\ a[1].category = a[2].category /\ a[1].package = a[2].package
                 /\ ~Differ(a[1].slot, a[2].slot) /\ ~Differ(a[1].subslot, a[2].subslot)
                 /\ ~Differ(a[1].repo, a[2].repo)
                 /\ ~Both(a[1].use_deps, a[2].use_deps)
                 /\ ~Both(a[1].version, a[2].version) ) => out.i12
            /\ out.i12 = AtomIntersects(Bare(a[1]), Bare(a[2]))
            /\ (s[1] = CP /\ s[2] \in { CP \o <<":", "1">>, CP \o <<":", "2">> }) => out.i12
            /\ s = << CP \o <<":", "1">>, CP \o <<":", "2">> >> => ~out.i12

\* A version on one side only and a slot on the other side only: the two
\* atoms intersect.
IntersectsByFieldWitness ==
    /\ pc = "intersected"
    /\ out.i12
    /\ IsSome(a[1].version) /\ a[2].version = None
    /\ a[1].slot = None /\ IsSome(a[2].slot)
    /\ IsSome(a[1].blocker) /\ a[2].blocker = None

\* C10: when nothing else keeps two atoms with USE dependencies apart,
\* they intersect unless some flag and its negation both appear in the
\* symmetric difference of the two USE-dependency sets, the entries being
\* taken by flag name and negation, without their other sigils ("(+)",
\* "(-)", "=", "?", "!").
UseDepsByFlagName ==
    pc = "intersected" =>
        LET NameEnd(u, from) ==
                CHOOSE e \in from..(Len(u) + 1) :
                    /\ \A k \in from..(e - 1) : u[k] \notin { "(", "=", "?" }
                    /\ e <= Len(u) => u[e] \in { "(", "=", "?" }
            Start(u) == IF u[1] \in { "-", "!" } THEN 2 ELSE 1
            Flag(u) == [ negated |-> u[1] = "-",
                         name    |-> SubSeq(u, Start(u), NameEnd(u, Start(u)) - 1) ]
            Flags(q) == { Flag(q[k]) : k \in 1..Len(q) }
            Diff(x, y) == (x \ y) \cup (y \ x)
            Conflict(d) == \E f, g \in d : f.negated /\ ~g.negated /\ f.name = g.name
        IN  ( /\ IsSome(a[1].use_deps) /\ IsSome(a[2].use_deps)
              /\ AtomIntersects([ a[1] EXCEPT !.use_deps = None ],
                                [ a[2] EXCEPT !.use_deps = None ]) )
              => out.i12 = ~Conflict(Diff(Flags(a[1].use_deps[1]), Flags(a[2].use_deps[1])))

(***************************************************************************)
(* Version ranges of two atoms of one package (specification Spec).       *)
(***************************************************************************)

\* Plain versions that tell the ranges of the inputs apart: every number up
\* to one past the largest input number, with a revision, with an _alpha
\* suffix, and extended by a digit.
VersionProbes ==
    LET Texts(n) == { ToDigits(n),
                      ToDigits(n) \o <<"-", "r", "1">>,
                      ToDigits(n) \o <<"_", "a", "l", "p", "h", "a">>,
                      ToDigits(n) \o <<"9">> }
    IN  { ParseVersion(t) : t \in UNION { Texts(n) : n \in 0..(MaxVersion + 1) } }

\* C11: two atoms of the same package that both carry an operator and a
\* version, and that nothing else keeps apart, intersect iff some version
\* lies in both ranges ("~" equality ignoring the revision, "=*" prefix of
\* the base string): >=cat/pkg-1 intersects =cat/pkg-1, <cat/pkg-1 does not
\* intersect >=cat/pkg-1; with the operators taken away the two versions
\* intersect only if they are equal.
RangesOverlap ==
    pc = "intersected" =>
        LET SameRest == /\ a[1].category = a[2].category /\ a[1].package = a[2].package
                        /\ a[1].slot = a[2].slot /\ a[1].subslot = a[2].subslot
                        /\ a[1].use_deps = a[2].use_deps /\ a[1].repo = a[2].repo
            Overlap(v, w) == \E x \in VersionProbes : Satisfies(v, x) /\ Satisfies(w, x)
            Ge1 == <<">", "=">> \o CP \o <<"-", "1">>
            Eq1 == <<"=">> \o CP \o <<"-", "1">>
            Lt1 == <<"<">> \o CP \o <<"-", "1">>
        IN  /\ (IsSome(a[1].version) /\ IsSome(a[2].version) /\ SameRest) =>
                  /\ IsSome(a[1].version[1].op) /\ IsSome(a[2].version[1].op)
                  /\ out.i12 = Overlap(a[1].version[1], a[2].version[1])
                  /\ out.plain12 = (VersionCmp(a[1].version[1], a[2].version[1]) = Equal)
            /\ s \in { <<Ge1, Eq1>>, <<Eq1, Ge1>> } => out.i12
            /\ s \in { <<Lt1, Ge1>>, <<Ge1, Lt1>> } => ~out.i12

\* A range below and a range above that meet in between: >cat/pkg-1 and
\* <cat/pkg-2 intersect, the versions 1 and 2 alone do not.
RangesOverlapWitness ==
    /\ pc = "intersected"
    /\ s = << <<">">> \o CP \o <<"-", "1">>, <<"<">> \o CP \o <<"-", "2">> >>
    /\ out.i12
    /\ ~out.plain12

(***************************************************************************)
(* Properties of the DepSet grammars, rendering and flattening            *)
(* (specification SpecDepSet).                                            *)
(***************************************************************************)

\* C12: no DepSet parse yields an empty list.  Each of the six functions
\* returns Ok(None) for the empty string and for no other input; a parsed
\* DepSet has at least one top-level expression and each of its groups
\* (AllOf, AnyOf, ExactlyOneOf, AtMostOneOf, UseEnabled, UseDisabled) has
\* at least one child; "( )" is an error.
NonEmptyDepSet ==
    pc # "input" =>
        /\ s.text = << >> => a = [ ok |-> TRUE, val |-> None ]
        /\ pc = "none" <=> s.text = << >>
        /\ pc = "parsed" =>
              /\ Len(a.val[1].deps) >= 1
              /\ \A k \in 1..Len(DepSetNodes(a.val[1])) :
                    DepSetNodes(a.val[1])[k].t # "Matches"
                        => Len(DepSetNodes(a.val[1])[k].vals) >= 1
        /\ s.text = <<"("," ",")">> => pc = "rejected"

\* A group inside a group inside a conditional, parsed as a LICENSE.
NonEmptyDepSetWitness ==
    /\ pc = "parsed"
    /\ s = [ kind |-> "license", text |-> <<"!","u","1","?"," ","("," ","|","|"," ","("," ","u","2"," ","u","3"," ",")"," ",")">> ]
    /\ Len(DepSetNodes(a.val[1])) = 5

\* C13: rendering is the inverse of parsing.  For every input a DepSet
\* function accepts, the rendered DepSet is the input itself (expressions
\* joined by single spaces, groups as "( ... )", the "||", "^^", "??"
\* prefixes, "flag?" and "!flag?" conditionals, "!" on disabled leaves,
\* "uri -> file" renames), and parsing the rendering gives an equal DepSet.
DepSetRoundTrip ==
    pc = "rendered" =>
        /\ out.r = s.text
        /\ out.again = a

\* A renamed URI inside a conditional, rendered and parsed again.
DepSetRoundTripWitness ==
    /\ pc = "rendered"
    /\ s = [ kind |-> "src_uri", text |-> <<"u","?"," ","("," ","h",":","/","u"," ","-",">"," ","f"," ",")">> ]
    /\ IsSome(a.val[1].deps[1].vals[1].val.rename)
    /\ out.again.ok

\* C14: flattening yields every leaf once, in depth-first left-to-right
\* order, the order of the rendered string.  What an iterator has yielded
\* is at every moment the leaves of the tree up to some point, and all of
\* them once it has returned None; groups and conditionals yield nothing
\* of their own ("( ( v ) )" gives [v]), the leaves under "u? ( .. )" and
\* under "!u? ( .. )" are both yielded, and "!u" is yielded as u.
FlattenInOrder ==
    pc = "flattening" =>
        \A k \in 1..Len(out.its) :
            LET Got == out.its[k].got
                All == LeavesOf(a.val[1])
            IN  /\ Len(Got) <= Len(All)
                /\ Got = SubSeq(All, 1, Len(Got))
                /\ out.its[k].nones > 0 =>
                      /\ Got = All
                      /\ s.text = <<"("," ","("," ","v"," ",")"," ",")">> /\ s.kind # "src_uri" => Got = << <<"v">> >>
                      /\ s.text = <<"u","?"," ","("," ","v"," ",")"," ","!","u","?"," ","("," ","w"," ",")">> /\ s.kind # "src_uri"
                            => Got = << <<"v">>, <<"w">> >>
                      /\ s.text = <<"u","1"," ","!","u","2">> /\ s.kind = "required_use"
                            => Got = << <<"u", "1">>, <<"u", "2">> >>

\* An iterator that went through a conditional nested in a conditional
\* and returned None.
FlattenInOrderWitness ==
    /\ pc = "flattening"
    /\ s = [ kind |-> "dependencies", text |-> <<"u","1","?"," ","("," ","a","/","b"," ","!","u","2","?"," ","("," ","c","/","d"," ",")"," ",")">> ]
    /\ out.its[1].nones = 1
    /\ Len(out.its[1].got) = 2
    /\ out.its[1].got[1].package = <<"b">>
    /\ out.its[1].got[2].package = <<"d">>

(***************************************************************************)
(* Termination of flattening (specification FairSpecDepSet).              *)
(***************************************************************************)

\* C15: the flatten iterator is finite and restartable.  Every iterator
\* that is advanced returns None after finitely many calls of next() and
\* then again at every further call, yielding nothing more; no call
\* changes the DepSet; of two iterators over the same DepSet, wherever
\* each one stands, one has yielded the beginning of what the other has,
\* and the same sequence when both have returned None.
FlattenTerminates ==
    /\ \A k \in 1..MaxIters :
          (pc = "flattening" /\ Len(out.its) >= k)
              ~> (pc = "flattening" /\ Len(out.its) >= k /\ out.its[k].nones = MaxNones)
    /\ [][ pc = "flattening" =>
             /\ a' = a
             /\ \A k \in 1..Len(out.its) :
                   out.its[k].nones > 0 =>
                       /\ out'.its[k].got = out.its[k].got
                       /\ out'.its[k].nones >= out.its[k].nones ]_vars
    /\ [](pc = "flattening" =>
             \A j, k \in 1..Len(out.its) :
                 LET G == out.its[j].got
                     H == out.its[k].got
                 IN  /\ Len(G) <= Len(H) => G = SubSeq(H, 1, Len(G))
                     /\ (out.its[j].nones > 0 /\ out.its[k].nones > 0) => G = H)

\* A second iterator that has returned None twice while the first one,
\* made before it, has yielded one of the two leaves.
FlattenTerminatesWitness ==
    /\ pc = "flattening"
    /\ Len(out.its) = 2
    /\ Len(out.its[1].got) = 1 /\ out.its[1].nones = 0
    /\ Len(out.its[2].got) = 2 /\ out.its[2].nones = MaxNones

(***************************************************************************)
(* Feature gating of the atom grammar (specification SpecGate).           *)
(***************************************************************************)

\* C16: an atom string that uses a gated construct (blocker / Blockers,
\* ":slot" / SlotDeps, "/subslot" / Subslots, slot operator / SlotOps,
\* "[use]" / UseDeps, "(+)" and "(-)" / UseDepDefaults, "::repo" /
\* RepoIds) is rejected under every EAPI that lacks the feature and
\* accepted under every EAPI that has all the features the string uses;
\* cat/pkg:0/1= is rejected without SlotOps and gives slot 0, subslot 1 and
\* the slot operator Equal where it is accepted.
FeatureGating ==
    pc # "input" =>
        LET t == s[1]
            Has(lit) == \E k \in 1..Len(t) : At(t, k, lit)
            \* the text between the single ":" and the "[" or "::" after it
            SlotFrom == { k \in 1..Len(t) : /\ t[k] = ":" /\ ~At(t, k, <<":", ":">>)
                                             /\ ~(k > 1 /\ t[k - 1] = ":") }
            SlotPart(k) == Slice(t, k + 1, RunEnd(t, k + 1, Chars \ {"[", ":"}))
            InSlot(c) == \E k \in SlotFrom : \E j \in 1..Len(SlotPart(k)) : SlotPart(k)[j] = c
            Uses == { f \in AtomFeatures :
                        \/ f = "Blockers" /\ At(t, 1, <<"!">>)
                        \/ f = "SlotDeps" /\ SlotFrom # {}
                        \/ f = "Subslots" /\ InSlot("/")
                        \/ f = "SlotOps" /\ (InSlot("=") \/ InSlot("*"))
                        \/ f = "UseDeps" /\ Has(<<"[">>)
                        \/ f = "UseDepDefaults" /\ (Has(<<"(", "+", ")">>) \/ Has(<<"(", "-", ")">>))
                        \/ f = "RepoIds" /\ Has(<<":", ":">>) }
        IN  /\ AtomNew(t, AtomFeatures).ok => (a[1].ok <=> Uses \subseteq eapi)
            /\ ~AtomNew(t, AtomFeatures).ok => ~a[1].ok
            /\ t = CP \o <<":","0","/","1","=">> =>
                  /\ "SlotOps" \notin eapi => ~a[1].ok
                  /\ a[1].ok => /\ a[1].slot = Some(<<"0">>)
                                /\ a[1].subslot = Some(<<"1">>)
                                /\ a[1].slot_op = Some("Equal")

\* cat/pkg:0/1= accepted under an EAPI that has the three slot features
\* and lacks the others.
FeatureGatingWitness ==
    /\ pc = "parsed"
    /\ s[1] = CP \o <<":","0","/","1","=">>
    /\ eapi = { "SlotDeps", "Subslots", "SlotOps" }
    /\ a[1].slot_op = Some("Equal")

(***************************************************************************)
(* The error reported for a gated construct (specification SpecGate).     *)
(***************************************************************************)

\* The EAPI an error message names as the first one supporting a construct.
EapiNamedIn(msg) ==
    CASE msg = "blockers are supported in >= EAPI 2" -> Some("2")
      [] msg = "slot deps are supported in >= EAPI 1" -> Some("1")
      [] msg = "slot operators are supported in >= EAPI 5" -> Some("5")
      [] msg = "subslots are supported in >= EAPI 5" -> Some("5")
      [] msg = "use deps are supported in >= EAPI 2" -> Some("2")
      [] msg = "use dep defaults are supported in >= EAPI 4" -> Some("4")
      [] OTHER -> None

\* C17: when an atom string is rejected because the EAPI lacks a feature
\* (the same string is accepted once the feature is added), the reported
\* error is a grammar error whose expected set holds the message of that
\* feature's construct, and the message names the EAPI that introduced it.
\* The code does not do this: the blocker message is shadowed
\* by the error of rule cp on "!cat/pkg", the USE default message is inside
\* quiet!{}, and the repository message names no EAPI.
GatedErrorNamesEapi ==
    pc = "rejected" =>
        \A f \in AtomFeatures \ eapi :
            AtomNew(s[1], eapi \cup {f}).ok =>
                /\ p[1].err.via = "peg_error"
                /\ p[1].err.rule = "dep"
                /\ GateMessage[f] \in p[1].err.error.expected
                /\ EapiNamedIn(GateMessage[f]) # None

(***************************************************************************)
(* The memoization cache (specification SpecCache).                       *)
(***************************************************************************)

\* C19: the cache is transparent.  In every interleaving of calls of
\* version, cpv and dep from two threads, each call returns what the
\* function body returns for its arguments, Ok and Err alike, on a hit as
\* on a miss; whatever a cache holds under the key of a call is the result
\* of the body for that call, so a dep result is never handed to a call
\* with the same string and another EAPI; and no cache grows beyond its
\* capacity, also after evictions.
CacheTransparent ==
    /\ out.op = "return" => out.result = CacheBody(out.call)
    /\ \A c \in CacheCalls(eapi) :
         LET Held(g) == g.hit => g.val = CacheBody(c)
         IN  Held(cache_get(a[c.fn], CacheKey(c)))
    /\ \A fn \in { "version", "cpv", "dep" } : Len(a[fn]) <= CacheSize

\* After an eviction from the dep cache, cat/pkg:0= is answered from the
\* cache with an error under the EAPI without slot operators, while the
\* cache also holds the parsed atom of the same string under the other
\* EAPI.
CacheTransparentWitness ==
    /\ out.op = "return" /\ out.hit
    /\ out.call = [ fn |-> "dep", args |-> << CP \o <<":", "0", "=">>, EAPI_PLAIN >> ]
    /\ ~out.result.ok
    /\ "dep" \in out.evicted
    /\ \E k \in 1..Len(a.dep) :
         /\ a.dep[k].key = << CP \o <<":", "0", "=">>, EAPI_PKGCRAFT >>
         /\ a.dep[k].val.ok

(***************************************************************************)
(* Groups and negation in the six grammars (specification SpecDepSet).    *)
(***************************************************************************)

\* C20: with a leaf the grammar accepts (a/b for package dependencies, v
\* elsewhere), "|| ( leaf )" is accepted by LICENSE, REQUIRED_USE and
\* package dependencies only and gives an AnyOf group; "^^ ( u1 !u2 )" is
\* accepted by REQUIRED_USE only, "?? ( u1 u2 )" by REQUIRED_USE under an
\* EAPI with RequiredUseOneOf only; "!u" is accepted by REQUIRED_USE only
\* and is the disabled leaf u; "u? ( leaf )" and "!u? ( leaf )" are
\* accepted by every grammar as conditionals.  The SRC_URI grammar of the
\* code departs from this: its leaf rule takes any text without a
\* space that does not start with ")", so "||", "^^", "??" and "!u" are
\* URIs to it.
GroupLegality ==
    pc # "input" =>
        LET leaf == IF s.kind = "dependencies" THEN <<"a","/","b">> ELSE <<"v">>
            In(pre) == pre \o <<"("," ">> \o leaf \o <<" ",")">>
        IN  /\ s.text = In(<<"|","|"," ">>) =>
                  /\ a.ok <=> s.kind \in { "license", "required_use", "dependencies" }
                  /\ a.ok => Len(a.val[1].deps) = 1 /\ a.val[1].deps[1].t = "AnyOf"
            /\ s.text = <<"^","^"," ","("," ","u","1"," ","!","u","2"," ",")">> =>
                  /\ a.ok <=> s.kind = "required_use"
                  /\ a.ok => Len(a.val[1].deps) = 1 /\ a.val[1].deps[1].t = "ExactlyOneOf"
            /\ s.text = <<"?","?"," ","("," ","u","1"," ","u","2"," ",")">> =>
                  /\ a.ok <=> (s.kind = "required_use" /\ "RequiredUseOneOf" \in eapi)
                  /\ a.ok => Len(a.val[1].deps) = 1 /\ a.val[1].deps[1].t = "AtMostOneOf"
            /\ s.text = <<"!","u">> =>
                  /\ a.ok <=> s.kind = "required_use"
                  /\ a.ok => a.val[1].deps = << Matches(<<"u">>, FALSE) >>
            /\ s.text = In(<<"u","?"," ">>) =>
                  a.ok /\ Len(a.val[1].deps) = 1 /\ a.val[1].deps[1].t = "UseEnabled"
            /\ s.text = In(<<"!","u","?"," ">>) =>
                  a.ok /\ Len(a.val[1].deps) = 1 /\ a.val[1].deps[1].t = "UseDisabled"

(***************************************************************************)
(* Slot, subslot and slot operator of a parsed atom (specification        *)
(* SpecGate).                                                             *)
(***************************************************************************)

\* C21: an atom produced by parsing has a subslot only together with a
\* slot; a slot operator comes with neither (cat/pkg:= and cat/pkg:*),
\* with a slot only (cat/pkg:0=) or with slot and subslot (cat/pkg:0/1=).
SubslotNeedsSlot ==
    pc # "input" =>
        \A k \in 1..Len(a) :
            a[k].ok =>
                /\ IsSome(a[k].subslot) => IsSome(a[k].slot)
                /\ s[k] = CP \o <<":", "=">> =>
                      a[k].slot = None /\ a[k].subslot = None /\ a[k].slot_op = Some("Equal")
                /\ s[k] = CP \o <<":", "*">> =>
                      a[k].slot = None /\ a[k].subslot = None /\ a[k].slot_op = Some("Star")
                /\ s[k] = CP \o <<":", "0", "=">> =>
                      a[k].slot = Some(<<"0">>) /\ a[k].subslot = None
                      /\ a[k].slot_op = Some("Equal")
                /\ s[k] = CP \o <<":", "0", "/", "1", "=">> =>
                      a[k].slot = Some(<<"0">>) /\ a[k].subslot = Some(<<"1">>)
                      /\ a[k].slot_op = Some("Equal")
                /\ s[k] = CP \o <<":", "0", "/", "1">> =>
                      a[k].slot = Some(<<"0">>) /\ a[k].subslot = Some(<<"1">>)
                      /\ a[k].slot_op = None

\* cat/pkg:* parsed: a slot operator without slot and subslot.
SubslotNeedsSlotWitness ==
    /\ pc = "parsed"
    /\ s[1] = CP \o <<":", "*">>
    /\ a[1].ok /\ a[1].slot = None /\ a[1].slot_op = Some("Star")

(***************************************************************************)
(* Equality of atoms and the order of their USE dependencies              *)
(* (specification Spec).                                                  *)
(***************************************************************************)

\* The parse results x and y differ at most in the order in which their
\* USE dependencies are written.
SameButUseOrder(x, y) ==
    /\ IsSome(x.use_deps) /\ IsSome(y.use_deps)
    /\ SeqElems(x.use_deps[1]) = SeqElems(y.use_deps[1])
    /\ [ x EXCEPT !.use_deps = None ] = [ y EXCEPT !.use_deps = None ]

\* C22: two atoms that differ only in the order in which their USE
\* dependencies are written compare equal and have the same hash.
UseOrderInsensitive ==
    pc = "compared" =>
        ( SameButUseOrder(p[1], p[2]) => out.eq /\ out.h1 = out.h2 )

(***************************************************************************)
(* Version and operator of a parsed atom (specification SpecNew).         *)
(***************************************************************************)

\* The text has a version operator after its blocker.
OperatorWritten(text) ==
    LET After(i) == i <= Len(text) /\ text[i] \in {"<", "=", "~", ">"}
    IN  After(IF At(text, 1, <<"!", "!">>) THEN 3 ELSE IF At(text, 1, <<"!">>) THEN 2 ELSE 1)

\* C23: an atom made by Atom::new has a version exactly if its text has a
\* version operator, and the version then carries that operator; cat/pkg-1
\* and =cat/pkg are rejected; >=cat/pkg-r1-2-r3 is package pkg-r1 with
\* version 2-r3.  An atom made by Atom::new_cpv has a version without
\* operator.
VersionIffOperator ==
    /\ pc = "parsed" =>
          /\ IsSome(a[1].version) <=> OperatorWritten(s[1])
          /\ IsSome(a[1].version) => IsSome(a[1].version[1].op)
          /\ s[1] = <<">", "=">> \o CP \o <<"-", "r", "1", "-", "2", "-", "r", "3">> =>
                /\ a[1].package = <<"p", "k", "g", "-", "r", "1">>
                /\ a[1].version[1].full = <<"2", "-", "r", "3">>
                /\ a[1].version[1].op = Some("GreaterOrEqual")
    /\ s[1] \in { CP \o <<"-", "1">>, <<"=">> \o CP } => pc # "parsed"
    /\ s[1] = <<">", "=">> \o CP \o <<"-", "r", "1", "-", "2", "-", "r", "3">> => pc # "rejected"
    /\ pc = "cpv" =>
          /\ IsSome(a[1].version) /\ a[1].version[1].op = None
          /\ a[1].blocker = None
          /\ s[1] = CP \o <<"-", "r", "1", "-", "2", "-", "r", "3">> =>
                /\ a[1].package = <<"p", "k", "g", "-", "r", "1">>
                /\ a[1].version[1].full = <<"2", "-", "r", "3">>

\* >=cat/pkg-r1-2-r3 parsed: the package name keeps its -r1.
VersionIffOperatorWitness ==
    /\ pc = "parsed"
    /\ s[1] = <<">", "=">> \o CP \o <<"-", "r", "1", "-", "2", "-", "r", "3">>
    /\ a[1].package = <<"p", "k", "g", "-", "r", "1">>
    /\ IsSome(a[1].version)

(***************************************************************************)
(* Restrictions (specification SpecRestrict).                             *)
(***************************************************************************)

\* The results of the children of the combination r on the object obj.
ChildResults(r, obj) == { restrict_match(r.vals[k], obj) : k \in 1..Len(r.vals) }

\* C24: True matches every object and False none; And matches exactly if
\* every child matches, so an empty And matches; Or exactly if some child
\* matches; Not exactly if its child does not; Xor exactly if some child
\* matches and some child does not.
BooleanSemantics ==
    pc = "matched" =>
        /\ a.r.t = "True" => out.m
        /\ a.r.t = "False" => ~out.m
        /\ a.r.t = "And" => (out.m <=> ChildResults(a.r, s) \subseteq { TRUE })
        /\ a.r.t = "And" /\ a.r.vals = << >> => out.m
        /\ a.r.t = "Or" => (out.m <=> TRUE \in ChildResults(a.r, s))
        /\ a.r.t = "Not" => (out.m <=> ~restrict_match(a.r.r, s))
        /\ a.r.t = "Xor" => (out.m <=> ChildResults(a.r, s) = { TRUE, FALSE })

\* An Xor of three children of which exactly two match has matched.
BooleanSemanticsWitness ==
    /\ pc = "matched"
    /\ a.r.t = "Xor" /\ Len(a.r.vals) = 3
    /\ \E k \in 1..3 :
          /\ ~restrict_match(a.r.vals[k], s)
          /\ \A j \in (1..3) \ { k } : restrict_match(a.r.vals[j], s)
    /\ out.m

\* C26: a restriction made by &, | or ^ matches an object exactly if the
\* combination that keeps each operand as one child matches it.
FlatteningPreservesMeaning ==
    pc = "matched" => out.m = out.nested

(***************************************************************************)
(* The process pool (specification SpecPool).                             *)
(***************************************************************************)

\* C25: at most as many children as the pool's size hold a slot; the free
\* slots are the size less the children that have not given their slot
\* back, the spawn between acquire and fork, and the spawns whose fork
\* failed, so each child gives back one slot, whatever its function
\* returned; a spawn that has gone on to fork had a free slot for its child.
PoolBoundsConcurrency ==
    /\ Cardinality(Running) <= eapi
    /\ p.sem = eapi - Cardinality(Running) - (IF pc = "fork" THEN 1 ELSE 0) - s.failed
    /\ p.sem >= 0
    /\ pc = "fork" => Cardinality(Running) < eapi

\* The pool is full, a child whose function failed has given its slot
\* back before, and the parent has another spawn to make, which waits.
PoolBoundsConcurrencyWitness ==
    /\ pc = "idle" /\ s.calls < MaxSpawns
    /\ p.sem = 0 /\ s.failed = 0
    /\ Cardinality(Running) = eapi
    /\ \E c \in 1..Len(a) : a[c].st = "exited" /\ a[c].res = "Err"

\* C27: once every child has terminated and no spawn is under way, the
\* free slots are the pool's size.
SlotsGivenBack ==
    ( /\ pc # "fork"
      /\ \A c \in 1..Len(a) : a[c].st = "exited" )
    => p.sem = eapi

\* C28: when join has returned every child has exited, no error is left in
\* the channel, and the count is the number of children whose function
\* returned an error.
JoinCountsErrors ==
    pc = "joined" =>
        /\ \A c \in 1..Len(a) : a[c].st = "exited"
        /\ p.chan = 0
        /\ out.count = Cardinality({ c \in 1..Len(a) : a[c].res = "Err" })

\* join has returned 1 for three children of which one failed.
JoinCountsErrorsWitness ==
    /\ pc = "joined"
    /\ Len(a) = 3
    /\ out.count = 1
    /\ Cardinality({ c \in 1..Len(a) : a[c].res = "Err" }) = 1

(***************************************************************************)
(* inherit (specification SpecInherit).                                   *)
(***************************************************************************)

\* The eclasses whose files are being sourced.
BeingSourced == { a[k].cur[1] : k \in { j \in 1..Len(a) : IsSome(a[j].cur) } }

\* C30: no eclass file is sourced twice, an eclass that is being sourced
\* is not sourced again by a nested inherit, and when the ebuild's inherit
\* has returned the inherited set holds each sourced eclass once.
InheritOnce ==
    /\ \A i, j \in 1..Len(p.sourced) : p.sourced[i] = p.sourced[j] => i = j
    /\ Cardinality(BeingSourced) = Cardinality({ k \in 1..Len(a) : IsSome(a[k].cur) })
    /\ pc = "done" =>
          /\ SeqElems(p.inherited) = SeqElems(p.sourced)
          /\ Len(p.inherited) = Len(p.sourced)

(***************************************************************************)
(* USE dependencies and intersection (specification Spec).                *)
(***************************************************************************)

\* The atom x with its USE dependencies taken away.
WithoutUseDeps(x) == [ x EXCEPT !.use_deps = None ]

\* Some flag is in the USE dependencies x and its negation in y.
NegatedIn(x, y) == \E f \in SeqElems(x) : <<"-">> \o f \in SeqElems(y)

\* C29: two atoms that intersect when their USE dependencies are taken
\* away fail to intersect only if one has a flag and the other its
\* negation; an atom without USE dependencies intersects with every atom
\* it intersects with otherwise.
UseConflictAcrossAtoms ==
    pc = "intersected" /\ AtomIntersects(WithoutUseDeps(a[1]), WithoutUseDeps(a[2])) =>
        /\ (IsSome(a[1].use_deps) /\ IsSome(a[2].use_deps) /\ ~out.i12) =>
              \/ NegatedIn(a[1].use_deps[1], a[2].use_deps[1])
              \/ NegatedIn(a[2].use_deps[1], a[1].use_deps[1])
        /\ (a[1].use_deps = None \/ a[2].use_deps = None) => out.i12

====
